---------------------------- MODULE Spec2Model ----------------------------
(***************************************************************************)
(* A model of the atmos event engine (cumulusrpg/atmos): the commit        *)
(* pipeline of Engine.Emit (validators with exceptions, before-hooks,      *)
(* repository Add, listeners, nested emissions) and the state projection   *)
(* of Engine.GetState (unordered and priority-ordered reducers).           *)
(*                                                                         *)
(* Engine.Emit is recursive: hooks and listeners call Emit again on the    *)
(* same goroutine.  The model keeps that recursion as an explicit call     *)
(* stack; exactly one step is enabled while a call is in progress, so the  *)
(* steps of one Emit are taken in the order of its code.                   *)
(***************************************************************************)
EXTENDS Integers, Sequences, FiniteSets, TLC

(***************************************************************************)
(* Bounds of the model.                                                    *)
(***************************************************************************)
MaxValidators == 2      \* validators registered per event type
MaxExceptions == 1      \* exceptions registered per event type
MaxHandlers == 3        \* before-hooks and listeners registered in all
MaxLog == 3             \* a caller emits only while the log is shorter
MaxOrdered == 2         \* ordered reducers registered per event type

(***************************************************************************)
(* Events.  An event has a logical type and a payload.                     *)
(***************************************************************************)
EventTypes == {"order_placed", "invoice_generated"}

Amounts == {0, 1, 2}

Event == [type : EventTypes, amount : Amounts]

\* &OrderPlacedEvent{...}: a pointer to an event is an Event too, with the
\* Type() and the fields of the struct it points to, but of another dynamic
\* type than the struct.
PointerTo(event) ==
    [type |-> event.type, amount |-> event.amount, pointer |-> TRUE]

IsPointer(event) == "pointer" \in DOMAIN event

(***************************************************************************)
(* User code plugged into the engine.  The engine treats validators,       *)
(* exception conditions and listeners as opaque; these are the concrete    *)
(* ones of the repository's tests and examples.                            *)
(***************************************************************************)
Validators == {"RequirePayment", "SufficientInventory", "GameNotStarted"}

Conditions == {"FreeOrder"}

Handlers == {"Track", "GenerateInvoice"}

Inventory == 1

\* The projected states, their initial values, and the reducers and
\* priorities they are registered with.
StateNames == {"counter", "total"}

InitialStates == {1}

Reducers == {"AddValue", "Double"}

\* The reducers that read the event through a type assertion to its struct
\* type (event.(SimpleEvent).Value), which panics for a pointer.
Asserting ==
    {"AddValue", "ReduceScore",
     "ReduceGameStarted", "ReduceMoveMade", "ReduceGameEnded"}

Priorities == {1, 2}

VARIABLES
    validators,     \* Engine.validators: event type -> validators
    exceptions,     \* Engine.exceptions: event type -> exceptions
    beforeHooks,    \* Engine.beforeHooks: event type -> pre-commit hooks
    listeners,      \* Engine.listeners: event type -> listeners
    states,         \* Engine.states: state name -> state registry
    orderedReducers,\* Engine.orderedReducers: event type -> ordered reducers
    events,         \* the repository's log (CustomRepository.events)
    snapshots,      \* the repository's snapshots (InMemorySnapshot.snapshots)
    stack,          \* the call stack of Emit and handler invocations
    eventFactories, \* Engine.eventFactories: event type -> factory
    calls,          \* history: the Emit calls of the current top-level call
    trace,          \* history: what the current top-level call ran, in order
    accepted,       \* history: the Emit calls that returned true since the
                    \* log was created or loaded
    returned,       \* history: what GetState returned since the last change
    loaded,         \* history: the argument of the caller's last SetEvents
    outcome         \* history: the caller's last snapshot call and its result

vars == << validators, exceptions, beforeHooks, listeners, states,
           orderedReducers, events, stack, eventFactories, calls, trace,
           accepted, returned, loaded, snapshots, outcome >>

registries == << validators, exceptions, beforeHooks, listeners, states,
                 orderedReducers, eventFactories >>

\* The value of Engine.states and of Engine.orderedReducers after NewEngine:
\* maps without a key.
NoReducer == "none"

Unregistered ==
    [exists |-> FALSE, InitialState |-> 0,
     Reducers |-> [t \in EventTypes |-> NoReducer]]

NoProjection ==
    /\ states = [name \in StateNames |-> Unregistered]
    /\ orderedReducers = [t \in EventTypes |-> << >>]

\* The value of Engine.eventFactories after NewEngine: a map without a key.
NoFactory == "none"

\* The history variables before the caller's first call: GetState was not
\* called for any name, SetEvents was not called.
NoResult == [value |-> 0, count |-> 0]

NoResults == [name \in StateNames |-> NoResult]

NotLoaded ==
    [set |-> FALSE, events |-> << >>, error |-> FALSE, panicked |-> FALSE]

\* GetSnapshot's result for a state without a snapshot: no bytes, false.
Missing == [exists |-> FALSE, valid |-> FALSE, object |-> {}]

\* A repository that is no SnapshotRepository: the default InMemory
\* repository and CustomRepository.
Unsupported == [capable |-> FALSE, data |-> [name \in StateNames |-> Missing]]

NoOutcome ==
    [op |-> "", name |-> "", error |-> "", at |-> 0, had |-> FALSE,
     initial |-> 0, data |-> Missing, result |-> 0]

NothingCalled ==
    /\ calls = << >>
    /\ trace = << >>
    /\ accepted = 0
    /\ returned = NoResults
    /\ loaded = NotLoaded
    /\ outcome = NoOutcome

(***************************************************************************)
(* The repository (CustomRepository of repository_test.go): Add appends,   *)
(* or fails and appends nothing; GetAll returns the log.                   *)
(***************************************************************************)
\* Add putting the event in front of the log.
AddInFront(evs, event, shouldFail) ==
    IF shouldFail THEN evs ELSE << event >> \o evs

Add(evs, event, shouldFail) ==
    IF shouldFail THEN evs ELSE Append(evs, event)

GetEvents == events

\* The player whose turn follows the turn of player.
Switch(player) == IF player = "X" THEN "O" ELSE "X"

\* StateReducer(engine, state, event): AddValue adds the event's value to
\* the state, Double doubles the state, ReduceScore adds the event's points
\* to the score of a game state; the reducers of the tic-tac-toe game start
\* the game, put the mover's mark on the board and pass the turn, and set
\* the winner.  AddCounter is a reducer that uses its engine argument: it
\* adds engine.GetState("counter") to the state.
RECURSIVE GetState(_)
Reduce(reducer, state, event) ==
    CASE reducer = "AddValue" -> state + event.amount
      [] reducer = "AddCounter" -> state + GetState("counter")
      [] reducer = "Double" -> 2 * state
      [] reducer = "ReduceScore" ->
            [state EXCEPT !.score = @ + event.amount]
      [] reducer = "ReduceGameStarted" ->
            [state EXCEPT !.GameStarted = TRUE,
                          !.PlayerXName = event.PlayerX,
                          !.PlayerOName = event.PlayerO,
                          !.CurrentPlayer = "X"]
      [] reducer = "ReduceMoveMade" ->
            [state EXCEPT !.Board[event.Position] = event.Player,
                          !.CurrentPlayer = Switch(@)]
      [] reducer = "ReduceGameEnded" ->
            [state EXCEPT !.Winner = event.Winner]

(***************************************************************************)
(* Engine.GetState.                                                        *)
(***************************************************************************)
\* GetState's loop over the ordered reducers of the event's type: those of
\* the state are applied in the order of the slice.
RECURSIVE ApplyOrdered(_, _, _, _)
ApplyOrdered(ordered, name, state, event) ==
    IF ordered = << >>
    THEN state
    ELSE ApplyOrdered(Tail(ordered), name,
                      IF Head(ordered).StateName = name
                      THEN Reduce(Head(ordered).Reducer, state, event)
                      ELSE state,
                      event)

\* The body of the loop with the regular reducer applied after the ordered
\* ones.
ApplyRegularToo(name, state, event) ==
    LET reducer == states[name].Reducers[event.type]
        ordered == ApplyOrdered(orderedReducers[event.type], name, state, event)
    IN IF reducer # NoReducer THEN Reduce(reducer, ordered, event) ELSE ordered

\* The body of the loop with the regular reducers kept per event type only:
\* the reducer registered for the type on the counter, when there is one,
\* is taken for every state.
ApplyReducerOfType(name, state, event) ==
    LET shared == IF states["counter"].Reducers[event.type] # NoReducer
                  THEN states["counter"].Reducers[event.type]
                  ELSE states[name].Reducers[event.type]
    IN IF orderedReducers[event.type] # << >>
       THEN ApplyOrdered(orderedReducers[event.type], name, state, event)
       ELSE IF shared # NoReducer
            THEN Reduce(shared, state, event)
            ELSE state

\* The body of GetState's loop over the log, for one event.
Apply(name, state, event) ==
    IF orderedReducers[event.type] # << >>
    THEN ApplyOrdered(orderedReducers[event.type], name, state, event)
    ELSE LET reducer == states[name].Reducers[event.type]
         IN IF reducer # NoReducer
            THEN Reduce(reducer, state, event)
            ELSE state

\* GetState's loop over the log evs, entered with state.
RECURSIVE Project(_, _, _)
Project(name, state, evs) ==
    IF evs = << >>
    THEN state
    ELSE Project(name, Apply(name, state, Head(evs)), Tail(evs))

\* The reducers GetState's loop applies to event for the state.
AppliedTo(name, event) ==
    IF orderedReducers[event.type] # << >>
    THEN {orderedReducers[event.type][k].Reducer :
            k \in {j \in 1..Len(orderedReducers[event.type]) :
                      orderedReducers[event.type][j].StateName = name}}
    ELSE {states[name].Reducers[event.type]} \ {NoReducer}

\* GetState's loop over the log evs panics: a reducer it applies asserts the
\* struct type of an event that is a pointer.
Panics(name, evs) ==
    \E k \in 1..Len(evs) :
        /\ IsPointer(evs[k])
        /\ AppliedTo(name, evs[k]) \cap Asserting # {}

Nil == "nil"

Panic == "panic"

\* GetState with the loop entered with the zero value.
GetStateFromZero(name) ==
    IF ~states[name].exists
    THEN Nil
    ELSE Project(name, 0, GetEvents)

\* GetState without the test of exists: the registry of a name that was
\* never registered is dereferenced.
GetStateUnchecked(name) ==
    IF ~states[name].exists \/ Panics(name, GetEvents)
    THEN Panic
    ELSE Project(name, states[name].InitialState, GetEvents)

GetState(name) ==
    IF ~states[name].exists
    THEN Nil
    ELSE IF Panics(name, GetEvents)
    THEN Panic
    ELSE Project(name, states[name].InitialState, GetEvents)

(***************************************************************************)
(* The tic-tac-toe game of examples/tictactoe: its events, its state and   *)
(* what the state says about the board.                                    *)
(***************************************************************************)
GameEventTypes == {"game_started", "move_made", "game_ended"}

GameStartedEvent(playerX, playerO) ==
    [type |-> "game_started", PlayerX |-> playerX, PlayerO |-> playerO]

MoveMadeEvent(player, position) ==
    [type |-> "move_made", Player |-> player, Position |-> position]

GameEndedEvent(winner) == [type |-> "game_ended", Winner |-> winner]

\* The cells of the board, Board [9]string.
BoardPositions == 0..8

\* NewGameState() of the game: an empty board, X to move, not started.
NewBoardState ==
    [Board |-> [c \in BoardPositions |-> ""], CurrentPlayer |-> "X",
     Winner |-> "", GameStarted |-> FALSE,
     PlayerXName |-> "", PlayerOName |-> ""]

IsPositionEmpty(s, position) ==
    IF position < 0 \/ position > 8
    THEN FALSE
    ELSE s.Board[position] = ""

\* IsGameOver telling that the game goes on whatever the winner is.
IsGameNeverOver(s) == FALSE

IsGameOver(s) == s.Winner # ""

\* The winning combinations: rows, columns, diagonals.
WinningLines ==
    << << 0, 1, 2 >>, << 3, 4, 5 >>, << 6, 7, 8 >>,
       << 0, 3, 6 >>, << 1, 4, 7 >>, << 2, 5, 8 >>,
       << 0, 4, 8 >>, << 2, 4, 6 >> >>

\* CheckWinner without the test of the full board.
CheckWinnerOfLines(s) ==
    LET full == {k \in 1..Len(WinningLines) :
                    LET line == WinningLines[k] IN
                    /\ s.Board[line[1]] # ""
                    /\ s.Board[line[1]] = s.Board[line[2]]
                    /\ s.Board[line[2]] = s.Board[line[3]]}
        first == CHOOSE k \in full : \A other \in full : k <= other
    IN IF full # {}
       THEN s.Board[WinningLines[first][1]]
       ELSE ""

\* CheckWinner: the mark of the first line of the list that one mark fills,
\* "draw" when no line is filled and the board is full, "" while the game
\* goes on.
CheckWinner(s) ==
    LET full == {k \in 1..Len(WinningLines) :
                    LET line == WinningLines[k] IN
                    /\ s.Board[line[1]] # ""
                    /\ s.Board[line[1]] = s.Board[line[2]]
                    /\ s.Board[line[2]] = s.Board[line[3]]}
        first == CHOOSE k \in full : \A other \in full : k <= other
    IN IF full # {}
       THEN s.Board[WinningLines[first][1]]
       ELSE IF \A c \in BoardPositions : s.Board[c] # ""
       THEN "draw"
       ELSE ""

\* engine.GetState("game").(GameState) on the log evs.
GameStateAt(evs) == Project("game", states["game"].InitialState, evs)

(***************************************************************************)
(* What the validators, exception conditions and handlers of the tests    *)
(* and examples do.                                                       *)
(***************************************************************************)
\* EventValidator.Validate(engine, event); evs is what GetEvents() returns.
Validate(v, evs, event) ==
    CASE v = "RequirePayment" -> FALSE
      [] v = "SufficientInventory" -> event.amount <= Inventory
      [] v = "GameNotStarted" ->
            \A k \in 1..Len(evs) : evs[k].type # event.type
      [] v = "IsCreatorPlayer" -> event.amount = 1
      [] v = "ValidMove" ->
            LET state == GameStateAt(evs) IN
            IF ~state.GameStarted THEN FALSE
            ELSE IF IsGameOver(state) THEN FALSE
            ELSE IF event.Player # state.CurrentPlayer THEN FALSE
            ELSE IsPositionEmpty(state, event.Position)

\* ValidatorException.Condition(engine, event): true means skip.
Condition(c, evs, event) ==
    CASE c = "FreeOrder" -> event.amount = 0

\* The events of the emit builder's tests: a registration (amount 1 for a
\* creator, 0 for a player), a grant of tokens, a welcome mail.
PlayerEventTypes == {"player_registered", "tokens_granted", "welcome_email"}

PlayerRegistered == {[type |-> "player_registered", amount |-> a] : a \in {0, 1}}

\* The listeners built with Emit(...).If(...).From(...).
Emitters == {"GrantTokens", "GrantAndWelcome", "SendWelcome"}

\* The listeners with their conditions taken as true: GrantTokens without
\* its If, the conditional listener without the test of its Condition.
TransformUnconditionally(h, event) ==
    CASE h = "GrantTokens" ->
            << [type |-> "tokens_granted", amount |-> 2] >>
      [] h = "WelcomeCreator" ->
            << [type |-> "welcome_email", amount |-> 0] >>
      [] OTHER -> << >>

\* The events a hook or listener emits for the event it handles
\* (emitListener.transform, after emitListener.condition): GenerateInvoice
\* emits one invoice, GrantTokens one grant if the player is a creator,
\* GrantAndWelcome a grant and then a welcome mail, SendWelcome a welcome
\* mail, Track nothing; WelcomeCreator is ConditionalListener.Handle of
\* When(&IsCreatorPlayer{}).Then(...) with an action that emits a welcome
\* mail; CheckForWinner reads the state of the game and
\* emits the end of the game when it has a winner or is a draw.
Transform(h, event) ==
    CASE h = "GenerateInvoice" ->
            << [type |-> "invoice_generated", amount |-> event.amount] >>
      [] h = "GrantTokens" ->
            IF event.amount = 1
            THEN << [type |-> "tokens_granted", amount |-> 2] >>
            ELSE << >>
      [] h = "GrantAndWelcome" ->
            << [type |-> "tokens_granted", amount |-> 1],
               [type |-> "welcome_email", amount |-> 0] >>
      [] h = "SendWelcome" ->
            << [type |-> "welcome_email", amount |-> 0] >>
      [] h = "WelcomeCreator" ->
            IF ~Validate("IsCreatorPlayer", GetEvents, event)
            THEN << >>
            ELSE << [type |-> "welcome_email", amount |-> 0] >>
      [] h = "CheckForWinner" ->
            LET winner == CheckWinner(GetState("game")) IN
            IF winner # "" THEN << GameEndedEvent(winner) >> ELSE << >>
      [] OTHER -> << >>

\* A handler may be registered for a type only if what it emits cannot lead
\* back to that type: the engine has no cycle guard, and an emission loop is
\* a programming error of the caller.
Rank(t) ==
    CASE t \in {"order_placed", "player_registered"} -> 1
      [] t \in {"invoice_generated", "tokens_granted"} -> 2
      [] OTHER -> 3

\* Any handler registered for any type.
AnyHandler(t, h) == TRUE

Acyclic(t, h) ==
    \A a \in Amounts :
        LET out == Transform(h, [type |-> t, amount |-> a])
        IN \A k \in 1..Len(out) : Rank(out[k].type) > Rank(t)

(***************************************************************************)
(* NewEngine: empty registries, the default empty repository.              *)
(***************************************************************************)
Init ==
    /\ validators = [t \in EventTypes |-> << >>]
    /\ exceptions = [t \in EventTypes |-> << >>]
    /\ beforeHooks = [t \in EventTypes |-> << >>]
    /\ listeners = [t \in EventTypes |-> << >>]
    /\ NoProjection
    /\ events = << >>
    /\ snapshots = Unsupported
    /\ stack = << >>
    /\ eventFactories = [t \in EventTypes |-> NoFactory]
    /\ NothingCalled

\* The number of entries of a registry, over all event types.
Registered(registry) ==
    Cardinality(UNION {{<< t, k >> : k \in 1..Len(registry[t])} :
                       t \in DOMAIN registry})

\* Registration happens at start-up, before the first Emit.
Configuring == stack = << >> /\ calls = << >> /\ events = << >>

RegisterValidator(eventType, validator) ==
    /\ Configuring
    /\ Len(validators[eventType]) < MaxValidators
    /\ validators' = [validators EXCEPT ![eventType] = Append(@, validator)]
    /\ UNCHANGED << exceptions, beforeHooks, listeners, states,
                    orderedReducers, events, stack, eventFactories,
                    calls, trace, accepted, loaded,
                    snapshots, outcome >>
    /\ returned' = NoResults

RegisterException(eventType, exception) ==
    /\ Configuring
    /\ Len(exceptions[eventType]) < MaxExceptions
    /\ exceptions' = [exceptions EXCEPT ![eventType] = Append(@, exception)]
    /\ UNCHANGED << validators, beforeHooks, listeners, states,
                    orderedReducers, events, stack, eventFactories,
                    calls, trace, accepted, loaded,
                    snapshots, outcome >>
    /\ returned' = NoResults

RegisterBeforeHook(eventType, hook) ==
    /\ Configuring
    /\ Registered(beforeHooks) + Registered(listeners) < MaxHandlers
    /\ Acyclic(eventType, hook)
    /\ beforeHooks' = [beforeHooks EXCEPT ![eventType] = Append(@, hook)]
    /\ UNCHANGED << validators, exceptions, listeners, states,
                    orderedReducers, events, stack, eventFactories,
                    calls, trace, accepted, loaded,
                    snapshots, outcome >>
    /\ returned' = NoResults

RegisterListener(eventType, listener) ==
    /\ Configuring
    /\ Registered(beforeHooks) + Registered(listeners) < MaxHandlers
    /\ Acyclic(eventType, listener)
    /\ listeners' = [listeners EXCEPT ![eventType] = Append(@, listener)]
    /\ UNCHANGED << validators, exceptions, beforeHooks, states,
                    orderedReducers, events, stack, eventFactories,
                    calls, trace, accepted, loaded,
                    snapshots, outcome >>
    /\ returned' = NoResults

(***************************************************************************)
(* States and reducers.                                                    *)
(***************************************************************************)
OrderedReducer ==
    [StateName : StateNames, Reducer : Reducers, Priority : Priorities]

\* RegisterState replacing the initial value only: the reducers attached to
\* the name before are kept.
RegisterStateKeepingReducers(name, initialState) ==
    /\ Configuring
    /\ states' = [states EXCEPT ![name] =
                      [exists |-> TRUE, InitialState |-> initialState,
                       Reducers |-> states[name].Reducers]]
    /\ UNCHANGED << validators, exceptions, beforeHooks, listeners,
                    orderedReducers, events, stack, eventFactories,
                    calls, trace, accepted, loaded,
                    snapshots, outcome >>
    /\ returned' = NoResults

\* RegisterState replaces the registry of the name: the initial value and an
\* empty reducer map.
RegisterState(name, initialState) ==
    /\ Configuring
    /\ states' = [states EXCEPT ![name] =
                      [exists |-> TRUE, InitialState |-> initialState,
                       Reducers |-> [t \in EventTypes |-> NoReducer]]]
    /\ UNCHANGED << validators, exceptions, beforeHooks, listeners,
                    orderedReducers, events, stack, eventFactories,
                    calls, trace, accepted, loaded,
                    snapshots, outcome >>
    /\ returned' = NoResults

\* engine.Event(eventType).WithReducer(stateName, reducer): nothing happens
\* when the state is not registered.
WithReducer(eventType, stateName, reducer) ==
    /\ Configuring
    /\ states' = IF states[stateName].exists
                 THEN [states EXCEPT ![stateName].Reducers[eventType] = reducer]
                 ELSE states
    /\ UNCHANGED << validators, exceptions, beforeHooks, listeners,
                    orderedReducers, events, stack, eventFactories,
                    calls, trace, accepted, loaded,
                    snapshots, outcome >>
    /\ returned' = NoResults

\* The slices with the elements of slice, each as often as in slice.
Reorderings(slice) ==
    LET n == Len(slice)
        bijections == {f \in [1..n -> 1..n] :
                          \A i, j \in 1..n : f[i] = f[j] => i = j}
    IN {[k \in 1..n |-> slice[f[k]]] : f \in bijections}

\* sort.Slice leaving the slice in any order.
SortSliceInAnyOrder(slice) == Reorderings(slice)

\* sort.Slice(slice, less) with less comparing Priority: the slice is
\* reordered so that no element has a lower priority than one before it.
\* The sort is not stable, so any order of elements of equal priority may
\* come out.
SortSlice(slice) ==
    {sorted \in Reorderings(slice) :
        \A i, j \in 1..Len(sorted) :
            i < j => ~(sorted[j].Priority < sorted[i].Priority)}

RegisterOrderedReducer(eventType, stateName, reducer, priority) ==
    /\ Configuring
    /\ Len(orderedReducers[eventType]) < MaxOrdered
    /\ LET orderedReducer == [StateName |-> stateName, Reducer |-> reducer,
                              Priority |-> priority]
       IN \E sorted \in SortSlice(Append(orderedReducers[eventType],
                                          orderedReducer)) :
            orderedReducers' = [orderedReducers EXCEPT ![eventType] = sorted]
    /\ UNCHANGED << validators, exceptions, beforeHooks, listeners, states,
                    events, stack, eventFactories,
                    calls, trace, accepted, loaded,
                    snapshots, outcome >>
    /\ returned' = NoResults

(***************************************************************************)
(* The call stack.  A frame is one invocation of Engine.Emit (kind "emit", *)
(* at position pc/i of its code) or one invocation of a hook or listener   *)
(* (kind "handler", with the events it still has to emit).  The top of the *)
(* stack is its last element.                                              *)
(***************************************************************************)
\* The activations the stack has room for.
MaxDepth == 6

Top == stack[Len(stack)]

Pop == SubSeq(stack, 1, Len(stack) - 1)

Running(kind, pc) ==
    /\ stack # << >>
    /\ Top.kind = kind
    /\ Top.pc = pc

\* Emit with the listeners run ahead of repository.Add.
StagesListenersBeforeAdd ==
    << "validate", "before", "listeners", "add", "return" >>

\* Emit with repository.Add ahead of the validators.
StagesCommitFirst == << "add", "validate", "before", "listeners", "return" >>

\* Emit with the before-hooks run ahead of the validators.
StagesHooksFirst == << "before", "validate", "add", "listeners", "return" >>

\* Emit with the before-hooks run after repository.Add.
StagesHooksAfterAdd == << "validate", "add", "before", "listeners", "return" >>

\* The stages of Emit's code, in the order of its statements: the loop over
\* the validators, the loop over the before-hooks, repository.Add, the loop
\* over the listeners, the final return.
Stages == << "validate", "before", "add", "listeners", "return" >>

StageIndex(pc) == CHOOSE k \in 1..Len(Stages) : Stages[k] = pc

\* The list a loop stage of Emit iterates over, for an event of type t.
StageList(t, pc) ==
    CASE pc = "validate" -> validators[t]
      [] pc = "before" -> beforeHooks[t]
      [] pc = "listeners" -> listeners[t]
      [] OTHER -> << >>

\* The next position of Emit's code, at or after (pc, i), at which something
\* runs: a loop over an empty or exhausted list falls through to the next
\* stage.
RECURSIVE Pos(_, _, _)
Pos(t, pc, i) ==
    IF pc \in {"add", "return"}
    THEN [pc |-> pc, i |-> 0]
    ELSE IF i <= Len(StageList(t, pc))
    THEN [pc |-> pc, i |-> i]
    ELSE Pos(t, Stages[StageIndex(pc) + 1], 1)

\* The stage that follows stage pc.
After(pc) == Stages[StageIndex(pc) + 1]

EmitFrame(id, event, pc, i) ==
    [kind |-> "emit", id |-> id, event |-> event,
     pc |-> Pos(event.type, pc, i).pc, i |-> Pos(event.type, pc, i).i,
     via |-> "", pending |-> << >>]

HandlerFrame(id, event, via, pending) ==
    [kind |-> "handler", id |-> id, event |-> event, pc |-> "handler",
     i |-> Top.i, via |-> via, pending |-> pending]

Call(event, parent, via) ==
    [event |-> event, parent |-> parent, via |-> via,
     by |-> IF stack = << >> THEN 0 ELSE Top.i,
     start |-> Len(events), result |-> "pending", index |-> 0]

Step(op, id, i, ok) ==
    [op |-> op, id |-> id, i |-> i, ok |-> ok, at |-> Len(events)]

\* hook.Handle(e, event) / listener.Handle(e, event): the caller resumes at
\* position (pc, i) once the handler and everything it emits has returned.
Invoke(h, via, pc, i) ==
    LET f == Top
        resumed == [stack EXCEPT ![Len(stack)] = EmitFrame(f.id, f.event, pc, i)]
    IN
    IF Transform(h, f.event) = << >>
    THEN resumed
    ELSE Append(resumed, HandlerFrame(f.id, f.event, via, Transform(h, f.event)))

(***************************************************************************)
(* Engine.Emit.                                                            *)
(***************************************************************************)
\* ShouldSkip without the test exception.Validator == validator.
ShouldSkipAnyValidator(validator, event) ==
    \E k \in 1..Len(exceptions[event.type]) :
        Condition(exceptions[event.type][k].Condition, GetEvents, event)

\* ShouldSkip without the call of exception.Condition.
ShouldSkipUnconditionally(validator, event) ==
    \E k \in 1..Len(exceptions[event.type]) :
        exceptions[event.type][k].Validator = validator

\* ShouldSkip with the exceptions of every event type looked at.
ShouldSkipOfAnyType(validator, event) ==
    \E t \in DOMAIN exceptions :
        \E k \in 1..Len(exceptions[t]) :
            /\ exceptions[t][k].Validator = validator
            /\ Condition(exceptions[t][k].Condition, GetEvents, event)

\* The inner loop of Emit over the exceptions of the event's type.
ShouldSkip(validator, event) ==
    \E k \in 1..Len(exceptions[event.type]) :
        /\ exceptions[event.type][k].Validator = validator
        /\ Condition(exceptions[event.type][k].Condition, GetEvents, event)

Finish(id, result) ==
    [calls EXCEPT ![id].result = result]

\* typedEvent := event.(T) of ValidatorWrapper.Validate and
\* ListenerWrapper.Handle.  The wrappers are built for the struct type of
\* the events they are registered for (NewTypedValidator(
\* RequirePaymentValidator{}), TypedListenerFunc[OrderPlacedEvent]), and the
\* engine looks them up by event.Type() alone: the assertion panics for a
\* pointer to the struct, which has the same Type().
CastPanics(event) == IsPointer(event)

\* A panic in a validator, hook or listener unwinds every call of Emit that
\* is running: none of them returns.
Unwind ==
    [id \in DOMAIN calls |->
        IF calls[id].result = "pending"
        THEN [calls[id] EXCEPT !.result = Panic]
        ELSE calls[id]]

\* A caller (not a handler) calls Emit(event).
Emit(event) ==
    /\ stack = << >>
    /\ Len(events) < MaxLog
    /\ stack' = << EmitFrame(1, event, Stages[1], 1) >>
    /\ calls' = << Call(event, 0, "caller") >>
    /\ trace' = << >>
    /\ loaded' = NotLoaded
    /\ UNCHANGED << registries, events, accepted, returned, snapshots,
                    outcome >>

\* RunValidator without the return false: a failed validator does not stop
\* the loop.
RunValidatorWithoutReturn ==
    /\ Running("emit", "validate")
    /\ LET f == Top
           validator == validators[f.event.type][f.i]
           skip == ShouldSkip(validator, f.event)
       IN /\ trace' = Append(trace,
                 Step(IF skip THEN "skip" ELSE "validate", f.id, f.i,
                      skip \/ Validate(validator, GetEvents, f.event)))
          /\ stack' = [stack EXCEPT ![Len(stack)] =
                          EmitFrame(f.id, f.event, "validate", f.i + 1)]
          /\ UNCHANGED calls
    /\ UNCHANGED << registries, events, accepted, returned, loaded,
                    snapshots, outcome >>

\* RunValidator going through the validators from the last registered to
\* the first.
RunValidatorLastFirst ==
    /\ Running("emit", "validate")
    /\ LET f == Top
           last == Len(validators[f.event.type]) - f.i + 1
           validator == validators[f.event.type][last]
       IN IF ShouldSkip(validator, f.event)
          THEN /\ trace' = Append(trace, Step("skip", f.id, last, TRUE))
               /\ stack' = [stack EXCEPT ![Len(stack)] =
                               EmitFrame(f.id, f.event, "validate", f.i + 1)]
               /\ UNCHANGED calls
          ELSE IF Validate(validator, GetEvents, f.event)
          THEN /\ trace' = Append(trace, Step("validate", f.id, last, TRUE))
               /\ stack' = [stack EXCEPT ![Len(stack)] =
                               EmitFrame(f.id, f.event, "validate", f.i + 1)]
               /\ UNCHANGED calls
          ELSE /\ trace' = Append(trace, Step("validate", f.id, last, FALSE))
               /\ stack' = Pop
               /\ calls' = Finish(f.id, "rejected")
    /\ UNCHANGED << registries, events, accepted, returned, loaded,
                    snapshots, outcome >>

\* One iteration of the loop over the validators of the event's type.
RunValidator ==
    /\ Running("emit", "validate")
    /\ LET f == Top
           validator == validators[f.event.type][f.i]
       IN IF ShouldSkip(validator, f.event)
          THEN /\ trace' = Append(trace, Step("skip", f.id, f.i, TRUE))
               /\ stack' = [stack EXCEPT ![Len(stack)] =
                               EmitFrame(f.id, f.event, "validate", f.i + 1)]
               /\ UNCHANGED calls
          ELSE IF CastPanics(f.event)
          THEN /\ trace' = Append(trace, Step(Panic, f.id, f.i, FALSE))
               /\ stack' = << >>
               /\ calls' = Unwind
          ELSE IF Validate(validator, GetEvents, f.event)
          THEN /\ trace' = Append(trace, Step("validate", f.id, f.i, TRUE))
               /\ stack' = [stack EXCEPT ![Len(stack)] =
                               EmitFrame(f.id, f.event, "validate", f.i + 1)]
               /\ UNCHANGED calls
          ELSE /\ trace' = Append(trace, Step("validate", f.id, f.i, FALSE))
               /\ stack' = Pop
               /\ calls' = Finish(f.id, "rejected")
    /\ UNCHANGED << registries, events, accepted, returned, loaded,
                    snapshots, outcome >>

\* One iteration of the loop over the before-hooks of the event's type.
RunBeforeHook ==
    /\ Running("emit", "before")
    /\ IF CastPanics(Top.event)
       THEN /\ trace' = Append(trace, Step(Panic, Top.id, Top.i, FALSE))
            /\ stack' = << >>
            /\ calls' = Unwind
       ELSE /\ trace' = Append(trace, Step("hook", Top.id, Top.i, TRUE))
            /\ stack' = Invoke(beforeHooks[Top.event.type][Top.i], "hook",
                               "before", Top.i + 1)
            /\ UNCHANGED calls
    /\ UNCHANGED << registries, events, accepted, returned, loaded,
                    snapshots, outcome >>

\* Commit without the test of Add's error: the listeners run and Emit
\* returns true also when Add failed.
CommitIgnoringError ==
    /\ Running("emit", "add")
    /\ \E shouldFail \in BOOLEAN :
        LET f == Top IN
        /\ events' = Add(events, f.event, shouldFail)
        /\ trace' = Append(trace, Step("add", f.id, 0, ~shouldFail))
        /\ returned' = IF shouldFail THEN returned ELSE NoResults
        /\ stack' = [stack EXCEPT ![Len(stack)] =
                        EmitFrame(f.id, f.event, After("add"), 1)]
        /\ calls' = IF shouldFail THEN calls
                    ELSE [calls EXCEPT ![f.id].index = Len(events')]
    /\ UNCHANGED << registries, accepted, loaded,
                    snapshots, outcome >>

\* Commit as a transaction: a failed Add also removes what the before-hooks
\* of this Emit committed.
CommitRollingBack ==
    /\ Running("emit", "add")
    /\ \E shouldFail \in BOOLEAN :
        LET f == Top IN
        /\ events' = IF shouldFail
                     THEN SubSeq(events, 1, calls[f.id].start)
                     ELSE Add(events, f.event, shouldFail)
        /\ trace' = Append(trace, Step("add", f.id, 0, ~shouldFail))
        /\ returned' = IF shouldFail THEN returned ELSE NoResults
        /\ IF shouldFail
           THEN /\ stack' = Pop
                /\ calls' = Finish(f.id, "rejected")
           ELSE /\ stack' = [stack EXCEPT ![Len(stack)] =
                                EmitFrame(f.id, f.event, After("add"), 1)]
                /\ calls' = [calls EXCEPT ![f.id].index = Len(events')]
    /\ UNCHANGED << registries, accepted, loaded,
                    snapshots, outcome >>

\* e.repository.Add(event), which the repository may fail.
Commit ==
    /\ Running("emit", "add")
    /\ \E shouldFail \in BOOLEAN :
        LET f == Top IN
        /\ events' = Add(events, f.event, shouldFail)
        /\ trace' = Append(trace, Step("add", f.id, 0, ~shouldFail))
        /\ returned' = IF shouldFail THEN returned ELSE NoResults
        /\ IF shouldFail
           THEN /\ stack' = Pop
                /\ calls' = Finish(f.id, "rejected")
           ELSE /\ stack' = [stack EXCEPT ![Len(stack)] =
                                EmitFrame(f.id, f.event, After("add"), 1)]
                /\ calls' = [calls EXCEPT ![f.id].index = Len(events')]
    /\ UNCHANGED << registries, accepted, loaded,
                    snapshots, outcome >>

\* RunListener going through the listeners from the last registered to the
\* first.
RunListenerReversed ==
    /\ Running("emit", "listeners")
    /\ LET last == Len(listeners[Top.event.type]) - Top.i + 1
       IN /\ trace' = Append(trace, Step("listener", Top.id, last, TRUE))
          /\ stack' = Invoke(listeners[Top.event.type][last], "listener",
                             "listeners", Top.i + 1)
    /\ UNCHANGED << registries, events, calls, accepted, returned, loaded,
                    snapshots, outcome >>

\* One iteration of the loop over the listeners of the event's type.
RunListener ==
    /\ Running("emit", "listeners")
    /\ IF CastPanics(Top.event)
       THEN /\ trace' = Append(trace, Step(Panic, Top.id, Top.i, FALSE))
            /\ stack' = << >>
            /\ calls' = Unwind
       ELSE /\ trace' = Append(trace, Step("listener", Top.id, Top.i, TRUE))
            /\ stack' = Invoke(listeners[Top.event.type][Top.i], "listener",
                               "listeners", Top.i + 1)
            /\ UNCHANGED calls
    /\ UNCHANGED << registries, events, accepted, returned, loaded,
                    snapshots, outcome >>

\* The final return true of Emit.
EmitReturn ==
    /\ Running("emit", "return")
    /\ trace' = Append(trace, Step("return", Top.id, 0, TRUE))
    /\ stack' = Pop
    /\ calls' = Finish(Top.id, "accepted")
    /\ accepted' = accepted + 1
    /\ UNCHANGED << registries, events, returned, loaded,
                    snapshots, outcome >>

\* HandlerEmit putting the emission in a queue: the new call waits until
\* everything that is running has returned.
HandlerEmitQueued ==
    /\ Running("handler", "handler")
    /\ Top.pending # << >>
    /\ Len(stack) < MaxDepth
    /\ LET f == Top
           id == Len(calls) + 1
           event == Head(f.pending)
       IN /\ calls' = Append(calls, Call(event, f.id, f.via))
          /\ stack' = << EmitFrame(id, event, Stages[1], 1) >>
                 \o [stack EXCEPT ![Len(stack)].pending = Tail(f.pending)]
    /\ UNCHANGED << registries, events, trace, accepted, returned, loaded,
                    snapshots, outcome >>

\* A handler calls engine.Emit(newEvent) for the next event it emits.  The
\* stack of the goroutine is finite: with MaxDepth activations on it the
\* next call overflows it and the runtime ends the process.
HandlerEmit ==
    /\ Running("handler", "handler")
    /\ Top.pending # << >>
    /\ Len(stack) < MaxDepth
    /\ LET f == Top
           id == Len(calls) + 1
           event == Head(f.pending)
       IN /\ calls' = Append(calls, Call(event, f.id, f.via))
          /\ stack' = Append(
                 [stack EXCEPT ![Len(stack)].pending = Tail(f.pending)],
                 EmitFrame(id, event, Stages[1], 1))
    /\ UNCHANGED << registries, events, trace, accepted, returned, loaded,
                    snapshots, outcome >>

\* HandlerReturn passing a rejection on: when an emission of the handler was
\* rejected, the Emit that ran the handler returns false as well.
HandlerReturnPropagating ==
    /\ Running("handler", "handler")
    /\ Top.pending = << >>
    /\ IF \E c \in DOMAIN calls :
            /\ calls[c].parent = Top.id
            /\ calls[c].via = Top.via
            /\ calls[c].by = Top.i
            /\ calls[c].result = "rejected"
       THEN /\ stack' = SubSeq(stack, 1, Len(stack) - 2)
            /\ calls' = [calls EXCEPT ![Top.id].result = "rejected"]
       ELSE /\ stack' = Pop
            /\ UNCHANGED calls
    /\ UNCHANGED << registries, events, trace, accepted, returned, loaded,
                    snapshots, outcome >>

\* A handler returns after its last emission.
HandlerReturn ==
    /\ Running("handler", "handler")
    /\ Top.pending = << >>
    /\ stack' = Pop
    /\ UNCHANGED << registries, events, calls, trace, accepted, returned, loaded,
                    snapshots, outcome >>

(***************************************************************************)
(* Event factories and the JSON form of the log.                           *)
(***************************************************************************)
\* The factories of the tests: func() Event { return &OrderPlacedEvent{} }.
\* A factory returns a pointer, into which json.Unmarshal can decode.
Factories == {"pointer"}

RegisterEventType(eventType, factory) ==
    /\ Configuring
    /\ eventFactories' = [eventFactories EXCEPT ![eventType] = factory]
    /\ returned' = NoResults
    /\ UNCHANGED << validators, exceptions, beforeHooks, listeners, states,
                    orderedReducers, events, stack, calls, trace, accepted,
                    loaded,
                    snapshots, outcome >>

\* EventWrapper{Type: event.Type(), Data: event} as json.Marshal encodes it:
\* Data is the JSON object of the struct's fields, for a struct and for a
\* pointer to it alike.
EventWrapper(event) ==
    [Type |-> event.type, Data |-> [amount |-> event.amount]]

\* The JSON array of the wrappers of evs.
MarshalEvents(evs) == [k \in 1..Len(evs) |-> EventWrapper(evs[k])]

\* json.Unmarshal(jsonData, &wrappers) returns no error: the input is a JSON
\* array whose elements are objects.  An element that is no object stands
\* for every input that is not a list of wrappers.
WellFormed(jsonData) ==
    \A k \in 1..Len(jsonData) : "Type" \in DOMAIN jsonData[k]

\* The error UnmarshalEvents returns with its events.
UnmarshalEventsError(jsonData) == ~WellFormed(jsonData)

\* UnmarshalEvents giving up, with no events, at a payload that cannot be
\* decoded.
UnmarshalEventsAborting(jsonData) ==
    LET known == SelectSeq(jsonData,
                    LAMBDA w : eventFactories[w.Type] # NoFactory)
    IN IF ~WellFormed(jsonData)
       THEN << >>
       ELSE IF \E k \in 1..Len(known) : "amount" \notin DOMAIN known[k].Data
       THEN << >>
       ELSE [k \in 1..Len(known) |->
                PointerTo([type |-> known[k].Type,
                           amount |-> known[k].Data.amount])]

\* UnmarshalEvents giving up at the first wrapper of an unknown type.
RECURSIVE UnmarshalEventsUntilUnknown(_)
UnmarshalEventsUntilUnknown(jsonData) ==
    IF jsonData = << >>
    THEN << >>
    ELSE IF eventFactories[Head(jsonData).Type] = NoFactory
    THEN << >>
    ELSE << PointerTo([type |-> Head(jsonData).Type,
                       amount |-> Head(jsonData).Data.amount]) >>
         \o UnmarshalEventsUntilUnknown(Tail(jsonData))

\* The events UnmarshalEvents returns: none when the input is no list of
\* wrappers.  In the loop over the wrappers, a wrapper whose type has no
\* factory is skipped, and so is one whose data json.Unmarshal cannot decode
\* into the factory's new instance (data that is no object with the
\* struct's fields); for any other the instance is decoded from the
\* wrapper's data and appended as the factory returned it.
RECURSIVE UnmarshalEvents(_)
UnmarshalEvents(jsonData) ==
    IF ~WellFormed(jsonData)
    THEN << >>
    ELSE IF jsonData = << >>
    THEN << >>
    ELSE LET wrapper == Head(jsonData)
             rest == UnmarshalEvents(Tail(jsonData))
         IN IF eventFactories[wrapper.Type] = NoFactory
            THEN rest
            ELSE IF "amount" \notin DOMAIN wrapper.Data
            THEN rest
            ELSE << PointerTo([type |-> wrapper.Type,
                               amount |-> wrapper.Data.amount]) >> \o rest

\* EventRepository.SetAll(events): the log is replaced, unless the
\* repository returns an error and keeps the log it has.
SetAll(evs, es, shouldFail) == IF shouldFail THEN evs ELSE es

\* What is kept of a call of SetEvents(es): whether SetAll returned an
\* error, whether the call returned, whether it panicked.
Loaded(es, error, panicked) ==
    [set |-> ~panicked, events |-> es, error |-> error,
     panicked |-> panicked]

\* SetEvents adding the events to the log instead of replacing it.
SetEventsAppending(es, shouldFail) ==
    /\ stack = << >>
    /\ events' = IF shouldFail THEN events ELSE events \o es
    /\ loaded' = Loaded(es, shouldFail, shouldFail)
    /\ returned' = IF shouldFail THEN returned ELSE NoResults
    /\ accepted' = IF shouldFail THEN accepted ELSE 0
    /\ UNCHANGED << registries, stack, calls, trace, snapshots, outcome >>

\* SetEvents without the panic: the error of SetAll is dropped and the call
\* returns.
SetEventsSwallowing(es, shouldFail) ==
    /\ stack = << >>
    /\ events' = SetAll(events, es, shouldFail)
    /\ loaded' = Loaded(es, shouldFail, FALSE)
    /\ returned' = IF shouldFail THEN returned ELSE NoResults
    /\ accepted' = IF shouldFail THEN accepted ELSE 0
    /\ UNCHANGED << registries, stack, calls, trace, snapshots, outcome >>

\* A caller (not a handler) calls SetEvents(es) on an engine whose
\* repository accepts the log or not: it panics when SetAll returns an
\* error.
SetEvents(es, shouldFail) ==
    /\ stack = << >>
    /\ events' = SetAll(events, es, shouldFail)
    /\ loaded' = Loaded(es, shouldFail, shouldFail)
    /\ returned' = IF shouldFail THEN returned ELSE NoResults
    /\ accepted' = IF shouldFail THEN accepted ELSE 0
    /\ UNCHANGED << registries, stack, calls, trace, snapshots, outcome >>

\* The persistence workflow of the README: the log is serialized, read back
\* and loaded.
Restore == SetEvents(UnmarshalEvents(MarshalEvents(GetEvents)), FALSE)

\* The same workflow with JSON read from a file: events, _ :=
\* engine.UnmarshalEvents(jsonData); engine.SetEvents(events).
Load(jsonData) == SetEvents(UnmarshalEvents(jsonData), FALSE)

\* A caller calls GetState a bounded number of times between two changes.
MaxCalls == 2

\* GetState keeping what it computed as the state's new starting value.
GetStateCallCaching(name) ==
    /\ stack = << >>
    /\ returned[name].count < MaxCalls
    /\ states[name].exists => ~Panics(name, GetEvents)
    /\ returned' = [returned EXCEPT ![name] =
                        [value |-> GetState(name), count |-> @.count + 1]]
    /\ states' = IF states[name].exists
                 THEN [states EXCEPT ![name].InitialState = GetState(name)]
                 ELSE states
    /\ UNCHANGED << validators, exceptions, beforeHooks, listeners,
                    orderedReducers, eventFactories, events, stack, calls,
                    trace, accepted, loaded,
                    snapshots, outcome >>

\* A caller (not a handler) calls GetState(name), which returns unless a
\* reducer panics: the engine is read, nothing of it is written.
GetStateCall(name) ==
    /\ stack = << >>
    /\ returned[name].count < MaxCalls
    /\ states[name].exists => ~Panics(name, GetEvents)
    /\ returned' = [returned EXCEPT ![name] =
                        [value |-> GetState(name), count |-> @.count + 1]]
    /\ UNCHANGED << registries, events, stack, calls, trace, accepted,
                    loaded,
                    snapshots, outcome >>

(***************************************************************************)
(* Snapshots.  A state of the snapshot tests is a GameState, a struct with *)
(* a score and a level; a snapshot is the JSON object of some of its       *)
(* fields, kept by the repository as bytes.                                *)
(***************************************************************************)
NewGameState == [score |-> 0, level |-> 1]

\* A pointer to a state (&SimpleState{...}).
PointerToState(state) == [pointer |-> TRUE, to |-> state]

\* A value json.Marshal rejects: a struct with a channel.
Unmarshalable == [ch |-> "chan int"]

Marshalable(value) == "ch" \notin DOMAIN value

\* json.Marshal of a struct or map: the JSON object of its fields, as the set
\* of its members.
Object(value) == {<< f, value[f] >> : f \in DOMAIN value}

\* The bytes of a JSON object, and bytes that are no JSON ("not valid json").
Bytes(object) == [exists |-> TRUE, valid |-> TRUE, object |-> object]

Malformed == [exists |-> TRUE, valid |-> FALSE, object |-> {}]

\* InMemorySnapshot.GetSnapshot: the bytes kept for the state, with exists
\* false when there are none.
GetSnapshot(stateName) == snapshots.data[stateName]

\* InMemorySnapshot.SetSnapshot and ClearSnapshot: the map with the entry
\* of the state assigned or deleted.
RepositorySetSnapshot(stateName, data) ==
    [snapshots EXCEPT !.data[stateName] = data]

\* ClearSnapshot assigning empty bytes to the entry instead of deleting it.
RepositoryClearSnapshotEmptying(stateName) ==
    [snapshots EXCEPT !.data[stateName] = Bytes({})]

RepositoryClearSnapshot(stateName) ==
    [snapshots EXCEPT !.data[stateName] = Missing]

\* mergeSnapshot decoding the snapshot into a zero value of the state's type:
\* the fields absent from the snapshot are zero.
mergeSnapshotOntoZero(initial, data) ==
    LET value == IF IsPointer(initial) THEN initial.to ELSE initial
    IN IF ~Marshalable(value) \/ ~data.valid
       THEN initial
       ELSE [f \in DOMAIN value |->
                IF \E member \in data.object : member[1] = f
                THEN (CHOOSE member \in data.object : member[1] = f)[2]
                ELSE 0]

\* mergeSnapshot failing instead of returning the initial value: an error
\* is returned for bytes that are no JSON and for an initial value that
\* cannot be serialized.
mergeSnapshotFailing(initial, data) ==
    LET value == IF IsPointer(initial) THEN initial.to ELSE initial
    IN IF ~Marshalable(value) \/ ~data.valid
       THEN [failed |-> TRUE]
       ELSE [f \in DOMAIN value |->
                IF \E member \in data.object : member[1] = f
                THEN (CHOOSE member \in data.object : member[1] = f)[2]
                ELSE value[f]]

\* mergeSnapshot(initial, data): the initial value, dereferenced when it is
\* a pointer, is serialized to its JSON object; the members of the snapshot
\* are laid over it; the result is decoded into the state's type, which
\* drops the members that are no field of it.  The initial value is returned
\* as it is when it cannot be serialized or the bytes are no JSON.
mergeSnapshot(initial, data) ==
    LET value == IF IsPointer(initial) THEN initial.to ELSE initial
    IN IF ~Marshalable(value)
       THEN initial
       ELSE IF ~data.valid
       THEN initial
       ELSE [f \in DOMAIN value |->
                IF \E member \in data.object : member[1] = f
                THEN (CHOOSE member \in data.object : member[1] = f)[2]
                ELSE value[f]]

\* The error of SetSnapshot and ClearSnapshot on a repository that is no
\* SnapshotRepository, and the error of json.Marshal.
NotSupported == "repository does not support snapshots"

MarshalError == "json: unsupported type"

\* Engine.HasSnapshot(stateName).
HasSnapshot(stateName) ==
    snapshots.capable /\ GetSnapshot(stateName).exists

\* What is kept of a call: its result, the length of the log at the call
\* and whether the state had a snapshot then.
Outcome(op, name, error) ==
    [op |-> op, name |-> name, error |-> error, at |-> Len(events),
     had |-> (name \in DOMAIN snapshots.data /\ HasSnapshot(name)),
     initial |-> 0, data |-> Missing, result |-> 0]

\* SetSnapshot storing the snapshot whatever the repository is.
SetSnapshotUnchecked(stateName, state) ==
    /\ stack = << >>
    /\ IF ~Marshalable(state)
       THEN /\ outcome' = Outcome("SetSnapshot", stateName, MarshalError)
            /\ UNCHANGED snapshots
       ELSE /\ outcome' = Outcome("SetSnapshot", stateName, "")
            /\ snapshots' = RepositorySetSnapshot(stateName,
                                                  Bytes(Object(state)))
    /\ UNCHANGED << registries, events, stack, calls, trace, accepted,
                    returned, loaded >>

\* Engine.SetSnapshot(stateName, state) called by a caller: an error when
\* the repository keeps no snapshots or the state cannot be serialized,
\* otherwise the state's JSON is stored.
SetSnapshot(stateName, state) ==
    /\ stack = << >>
    /\ IF ~snapshots.capable
       THEN /\ outcome' = Outcome("SetSnapshot", stateName, NotSupported)
            /\ UNCHANGED snapshots
       ELSE IF ~Marshalable(state)
       THEN /\ outcome' = Outcome("SetSnapshot", stateName, MarshalError)
            /\ UNCHANGED snapshots
       ELSE /\ outcome' = Outcome("SetSnapshot", stateName, "")
            /\ snapshots' = RepositorySetSnapshot(stateName,
                                                  Bytes(Object(state)))
    /\ UNCHANGED << registries, events, stack, calls, trace, accepted,
                    returned, loaded >>

\* Engine.ClearSnapshot(stateName) called by a caller.
ClearSnapshot(stateName) ==
    /\ stack = << >>
    /\ IF ~snapshots.capable
       THEN /\ outcome' = Outcome("ClearSnapshot", stateName, NotSupported)
            /\ UNCHANGED snapshots
       ELSE /\ outcome' = Outcome("ClearSnapshot", stateName, "")
            /\ snapshots' = RepositoryClearSnapshot(stateName)
    /\ UNCHANGED << registries, events, stack, calls, trace, accepted,
                    returned, loaded >>

\* A caller stores bytes with the repository's own SetSnapshot.
SeedSnapshot(stateName, data) ==
    /\ stack = << >>
    /\ snapshots.capable
    /\ outcome' = Outcome("Seed", stateName, "")
    /\ snapshots' = RepositorySetSnapshot(stateName, data)
    /\ UNCHANGED << registries, events, stack, calls, trace, accepted,
                    returned, loaded >>

\* A caller calls engine.mergeSnapshot(initial, data), as the tests do.
MergeCall(initial, data) ==
    /\ stack = << >>
    /\ outcome' = [Outcome("mergeSnapshot", "", "") EXCEPT
                      !.initial = initial, !.data = data,
                      !.result = mergeSnapshot(initial, data)]
    /\ UNCHANGED << registries, events, stack, calls, trace, accepted,
                    returned, loaded, snapshots >>

\* GetState seeded with the snapshot and stopping there: the log is not
\* folded when there is a snapshot.
GetStateOfSnapshotAlone(name) ==
    IF ~states[name].exists
    THEN Nil
    ELSE IF HasSnapshot(name)
    THEN mergeSnapshot(states[name].InitialState, GetSnapshot(name))
    ELSE GetState(name)

\* GetState of an engine with snapshots: the fold over the log starts from
\* the initial value merged with the snapshot, when the state has one.
GetStateWithSnapshot(name) ==
    IF ~states[name].exists
    THEN Nil
    ELSE IF Panics(name, GetEvents)
    THEN Panic
    ELSE Project(name,
                 IF HasSnapshot(name)
                 THEN mergeSnapshot(states[name].InitialState,
                                    GetSnapshot(name))
                 ELSE states[name].InitialState,
                 GetEvents)

Exceptions == [Validator : Validators, Condition : Conditions]

\* The logs a caller loads with SetEvents: events that were emitted as
\* structs or decoded as pointers, among them an order that no Emit would
\* accept.
MaxRestored == 2

Stored ==
    {[type |-> "order_placed", amount |-> 1],
     PointerTo([type |-> "order_placed", amount |-> 2]),
     PointerTo([type |-> "invoice_generated", amount |-> 1])}

Logs == UNION {[1..n -> Stored] : n \in 0..MaxRestored}

\* What callers pass to SetSnapshot (a full state, one field, an empty map, a
\* value that cannot be serialized), the bytes they store directly or pass
\* to mergeSnapshot, and the initial values they pass to mergeSnapshot.
SnapshotValues ==
    {[score |-> 100, level |-> 5], [score |-> 50], << >>, Unmarshalable}

SnapshotBytes ==
    {Bytes(Object(value)) : value \in SnapshotValues \ {Unmarshalable}}
        \cup {Malformed, Bytes({<< "level", 3 >>, << "bonus", 7 >>})}

MergedStates ==
    {NewGameState, PointerToState(NewGameState), Unmarshalable}

Next ==
    \/ \E t \in EventTypes, v \in Validators : RegisterValidator(t, v)
    \/ \E t \in EventTypes, x \in Exceptions : RegisterException(t, x)
    \/ \E t \in EventTypes, h \in Handlers : RegisterBeforeHook(t, h)
    \/ \E t \in EventTypes, h \in Handlers : RegisterListener(t, h)
    \/ \E name \in StateNames, initialState \in InitialStates :
            RegisterState(name, initialState)
    \/ \E t \in EventTypes, name \in StateNames, r \in Reducers :
            WithReducer(t, name, r)
    \/ \E t \in EventTypes, name \in StateNames, r \in Reducers,
            priority \in Priorities :
            RegisterOrderedReducer(t, name, r, priority)
    \/ \E t \in EventTypes, f \in Factories : RegisterEventType(t, f)
    \/ \E e \in Event : Emit(e)
    \/ RunValidator
    \/ RunBeforeHook
    \/ Commit
    \/ RunListener
    \/ EmitReturn
    \/ HandlerEmit
    \/ HandlerReturn
    \/ \E name \in StateNames : GetStateCall(name)
    \/ \E es \in Logs, shouldFail \in BOOLEAN : SetEvents(es, shouldFail)
    \/ Restore
    \/ \E name \in StateNames, value \in SnapshotValues :
            SetSnapshot(name, value)
    \/ \E name \in StateNames : ClearSnapshot(name)
    \/ \E name \in StateNames, data \in SnapshotBytes :
            SeedSnapshot(name, data)
    \/ \E initial \in MergedStates, data \in SnapshotBytes :
            MergeCall(initial, data)

Spec == Init /\ [][Next]_vars

\* The steps of a call of Emit in progress.
EmitSteps ==
    \/ RunValidator
    \/ RunBeforeHook
    \/ Commit
    \/ RunListener
    \/ EmitReturn
    \/ HandlerEmit
    \/ HandlerReturn

(***************************************************************************)
(* Validation: the engine of TestBeforeHooks (a before-hook that emits an  *)
(* invoice, listeners that track), on which any validators and exceptions  *)
(* are registered for order_placed.                                        *)
(***************************************************************************)
InitValidation ==
    /\ validators = [t \in EventTypes |-> << >>]
    /\ exceptions = [t \in EventTypes |-> << >>]
    /\ beforeHooks = [t \in EventTypes |->
            IF t = "order_placed" THEN << "GenerateInvoice" >> ELSE << >>]
    /\ listeners = [t \in EventTypes |-> << "Track" >>]
    /\ NoProjection
    /\ events = << >>
    /\ snapshots = Unsupported
    /\ stack = << >>
    /\ eventFactories = [t \in EventTypes |-> NoFactory]
    /\ NothingCalled

NextValidation ==
    \/ \E v \in Validators : RegisterValidator("order_placed", v)
    \/ \E x \in Exceptions : RegisterException("order_placed", x)
    \/ \E e \in Event : Emit(e)
    \/ EmitSteps

SpecValidation == InitValidation /\ [][NextValidation]_vars

(***************************************************************************)
(* Dispatch: the engine of TestValidatorExceptions (orders need payment,   *)
(* except free ones) with an inventory check ahead of it, on which any     *)
(* before-hooks and listeners are registered.                              *)
(***************************************************************************)
InitDispatch ==
    /\ validators = [t \in EventTypes |->
            IF t = "order_placed"
            THEN << "SufficientInventory", "RequirePayment" >>
            ELSE << >>]
    /\ exceptions = [t \in EventTypes |->
            IF t = "order_placed"
            THEN << [Validator |-> "RequirePayment", Condition |-> "FreeOrder"] >>
            ELSE << >>]
    /\ beforeHooks = [t \in EventTypes |-> << >>]
    /\ listeners = [t \in EventTypes |-> << >>]
    /\ NoProjection
    /\ events = << >>
    /\ snapshots = Unsupported
    /\ stack = << >>
    /\ eventFactories = [t \in EventTypes |-> NoFactory]
    /\ NothingCalled

NextDispatch ==
    \/ \E t \in EventTypes, h \in Handlers : RegisterBeforeHook(t, h)
    \/ \E t \in EventTypes, h \in Handlers : RegisterListener(t, h)
    \/ \E e \in Event : Emit(e)
    \/ EmitSteps

SpecDispatch == InitDispatch /\ [][NextDispatch]_vars

(***************************************************************************)
(* Projection: an engine that checks the inventory for orders, on which    *)
(* any states and any reducers of order_placed are registered.  Callers    *)
(* emit orders, and invoices of amount 2, which no validator checks.       *)
(***************************************************************************)
InitProjection ==
    /\ validators = [t \in EventTypes |->
            IF t = "order_placed" THEN << "SufficientInventory" >> ELSE << >>]
    /\ exceptions = [t \in EventTypes |-> << >>]
    /\ beforeHooks = [t \in EventTypes |-> << >>]
    /\ listeners = [t \in EventTypes |-> << >>]
    /\ NoProjection
    /\ events = << >>
    /\ snapshots = Unsupported
    /\ stack = << >>
    /\ eventFactories = [t \in EventTypes |-> NoFactory]
    /\ NothingCalled

ProjectedEvents == {e \in Event : e.type = "order_placed" \/ e.amount = 2}

NextProjection ==
    \/ \E name \in StateNames, initialState \in InitialStates :
            RegisterState(name, initialState)
    \/ \E name \in StateNames, r \in Reducers :
            WithReducer("order_placed", name, r)
    \/ \E name \in StateNames, r \in Reducers, priority \in Priorities :
            RegisterOrderedReducer("order_placed", name, r, priority)
    \/ \E e \in ProjectedEvents : Emit(e)
    \/ RunValidator
    \/ Commit
    \/ EmitReturn

SpecProjection == InitProjection /\ [][NextProjection]_vars

(***************************************************************************)
(* Replay: the engine of the restore test (a counter that adds the value   *)
(* of every event) with a second state that doubles on every order, an     *)
(* inventory check, a before-hook and a listener for orders.  Any event    *)
(* factories are registered; callers emit, read the states, load logs and  *)
(* restore the log from its JSON form.  The repository is the in-memory    *)
(* one, whose SetAll returns no error.                                     *)
(***************************************************************************)
InitReplay ==
    /\ validators = [t \in EventTypes |->
            IF t = "order_placed" THEN << "SufficientInventory" >> ELSE << >>]
    /\ exceptions = [t \in EventTypes |-> << >>]
    /\ beforeHooks = [t \in EventTypes |->
            IF t = "order_placed" THEN << "Track" >> ELSE << >>]
    /\ listeners = [t \in EventTypes |->
            IF t = "order_placed" THEN << "Track" >> ELSE << >>]
    /\ \E initialState \in InitialStates :
            states = [name \in StateNames |->
                [exists |-> TRUE, InitialState |-> initialState,
                 Reducers |-> [t \in EventTypes |->
                    IF name = "counter" THEN "AddValue"
                    ELSE IF t = "order_placed" THEN "Double"
                    ELSE NoReducer]]]
    /\ orderedReducers = [t \in EventTypes |-> << >>]
    /\ events = << >>
    /\ snapshots = Unsupported
    /\ stack = << >>
    /\ eventFactories = [t \in EventTypes |-> NoFactory]
    /\ NothingCalled

ReplayedEvents == {e \in Event : e.amount # 0}

NextReplay ==
    \/ \E t \in EventTypes, f \in Factories : RegisterEventType(t, f)
    \/ \E e \in ReplayedEvents : Emit(e)
    \/ RunValidator
    \/ RunBeforeHook
    \/ Commit
    \/ RunListener
    \/ EmitReturn
    \/ \E name \in StateNames : GetStateCall(name)
    \/ \E es \in Logs : SetEvents(es, FALSE)
    \/ Restore

SpecReplay == InitReplay /\ [][NextReplay]_vars

\* The same engine on a repository whose SetAll may return an error:
\* callers emit and load logs.
NextReload ==
    \/ \E e \in ReplayedEvents : Emit(e)
    \/ RunValidator
    \/ RunBeforeHook
    \/ Commit
    \/ RunListener
    \/ EmitReturn
    \/ \E es \in Logs, shouldFail \in BOOLEAN : SetEvents(es, shouldFail)

SpecReload == InitReplay /\ [][NextReload]_vars

(***************************************************************************)
(* Snapshot: the engine of the snapshot scenarios, with a game state whose *)
(* score grows by the points of every event, on a repository that keeps    *)
(* snapshots or on one that does not.  Callers set, clear and seed          *)
(* snapshots, merge snapshots with initial values, and emit score events,  *)
(* for which orders stand.                                                 *)
(***************************************************************************)
InitSnapshot ==
    /\ validators = [t \in EventTypes |-> << >>]
    /\ exceptions = [t \in EventTypes |-> << >>]
    /\ beforeHooks = [t \in EventTypes |-> << >>]
    /\ listeners = [t \in EventTypes |-> << >>]
    /\ states = [name \in {"game"} |->
            [exists |-> TRUE, InitialState |-> NewGameState,
             Reducers |-> [t \in EventTypes |->
                IF t = "order_placed" THEN "ReduceScore" ELSE NoReducer]]]
    /\ orderedReducers = [t \in EventTypes |-> << >>]
    /\ events = << >>
    /\ \E capable \in BOOLEAN :
            snapshots = [capable |-> capable,
                         data |-> [name \in {"game"} |-> Missing]]
    /\ stack = << >>
    /\ eventFactories = [t \in EventTypes |-> NoFactory]
    /\ NothingCalled

ScoreEvents == {e \in Event : e.type = "order_placed" /\ e.amount # 0}

NextSnapshot ==
    \/ \E value \in SnapshotValues : SetSnapshot("game", value)
    \/ ClearSnapshot("game")
    \/ \E data \in SnapshotBytes : SeedSnapshot("game", data)
    \/ \E initial \in MergedStates, data \in SnapshotBytes :
            MergeCall(initial, data)
    \/ \E e \in ScoreEvents : Emit(e)
    \/ Commit
    \/ EmitReturn

SpecSnapshot == InitSnapshot /\ [][NextSnapshot]_vars

(***************************************************************************)
(* The engine of the emit builder's tests: listeners and before-hooks that *)
(* emit grants and welcome mails when a player registers.  Only the first  *)
(* grant of tokens is accepted, and a counter adds up the tokens granted.  *)
(* The caller emits registrations into the empty log, as each test does.   *)
(***************************************************************************)
InitNested ==
    /\ validators = [t \in PlayerEventTypes |->
            IF t = "tokens_granted" THEN << "GameNotStarted" >> ELSE << >>]
    /\ exceptions = [t \in PlayerEventTypes |-> << >>]
    /\ beforeHooks = [t \in PlayerEventTypes |-> << >>]
    /\ listeners = [t \in PlayerEventTypes |-> << >>]
    /\ states = [name \in {"counter"} |->
            [exists |-> TRUE, InitialState |-> 1,
             Reducers |-> [t \in PlayerEventTypes |->
                 IF t = "tokens_granted" THEN "AddValue" ELSE NoReducer]]]
    /\ orderedReducers = [t \in PlayerEventTypes |-> << >>]
    /\ events = << >>
    /\ snapshots = Unsupported
    /\ stack = << >>
    /\ eventFactories = [t \in PlayerEventTypes |-> NoFactory]
    /\ NothingCalled

NextNested ==
    \/ \E t \in PlayerEventTypes, h \in Emitters : RegisterBeforeHook(t, h)
    \/ \E t \in PlayerEventTypes, h \in Emitters : RegisterListener(t, h)
    \/ \E e \in PlayerRegistered : events = << >> /\ Emit(e)
    \/ EmitSteps

SpecNested == InitNested /\ [][NextNested]_vars

\* Emit runs on the caller's thread and nothing in it waits: while a call is
\* on the stack its next step is taken.
FairNested == SpecNested /\ WF_vars(EmitSteps)

(***************************************************************************)
(* Cross-state reads: the counter adds up the amounts of the orders, and   *)
(* the reducer of the total, registered for orders and invoices, adds the  *)
(* counter it reads through the engine.  Callers emit orders and invoices. *)
(***************************************************************************)
InitCrossState ==
    /\ validators = [t \in EventTypes |-> << >>]
    /\ exceptions = [t \in EventTypes |-> << >>]
    /\ beforeHooks = [t \in EventTypes |-> << >>]
    /\ listeners = [t \in EventTypes |-> << "Track" >>]
    /\ states = [name \in StateNames |->
            [exists |-> TRUE, InitialState |-> 1,
             Reducers |-> [t \in EventTypes |->
                 CASE name = "total" -> "AddCounter"
                   [] t = "order_placed" -> "AddValue"
                   [] OTHER -> NoReducer]]]
    /\ orderedReducers = [t \in EventTypes |-> << >>]
    /\ events = << >>
    /\ snapshots = Unsupported
    /\ stack = << >>
    /\ eventFactories = [t \in EventTypes |-> NoFactory]
    /\ NothingCalled

NextCrossState ==
    \/ \E e \in Event : Emit(e)
    \/ Commit
    \/ RunListener
    \/ EmitReturn

SpecCrossState == InitCrossState /\ [][NextCrossState]_vars

(***************************************************************************)
(* Exceptions per type: one validator instance that rejects everything is  *)
(* registered for both event types; exceptions are then registered for     *)
(* either type, and callers emit orders and invoices.                      *)
(***************************************************************************)
InitScoped ==
    /\ validators = [t \in EventTypes |-> << "RequirePayment" >>]
    /\ exceptions = [t \in EventTypes |-> << >>]
    /\ beforeHooks = [t \in EventTypes |-> << >>]
    /\ listeners = [t \in EventTypes |-> << "Track" >>]
    /\ NoProjection
    /\ events = << >>
    /\ snapshots = Unsupported
    /\ stack = << >>
    /\ eventFactories = [t \in EventTypes |-> NoFactory]
    /\ NothingCalled

NextScoped ==
    \/ \E t \in EventTypes, x \in Exceptions : RegisterException(t, x)
    \/ \E e \in Event : Emit(e)
    \/ RunValidator
    \/ Commit
    \/ RunListener
    \/ EmitReturn

SpecScoped == InitScoped /\ [][NextScoped]_vars

(***************************************************************************)
(* Typed wrappers: the engine of TestBeforeHooks with a typed validator of *)
(* orders that is skipped for free orders.  Callers emit orders and        *)
(* invoices as structs and as pointers to them.                            *)
(***************************************************************************)
InitTyped ==
    /\ validators = [t \in EventTypes |->
            IF t = "order_placed" THEN << "SufficientInventory" >> ELSE << >>]
    /\ exceptions = [t \in EventTypes |->
            IF t = "order_placed"
            THEN << [Validator |-> "SufficientInventory",
                     Condition |-> "FreeOrder"] >>
            ELSE << >>]
    /\ beforeHooks = [t \in EventTypes |->
            IF t = "order_placed" THEN << "GenerateInvoice" >> ELSE << >>]
    /\ listeners = [t \in EventTypes |-> << "Track" >>]
    /\ NoProjection
    /\ events = << >>
    /\ snapshots = Unsupported
    /\ stack = << >>
    /\ eventFactories = [t \in EventTypes |-> NoFactory]
    /\ NothingCalled

NextTyped ==
    \/ \E e \in Event : Emit(e)
    \/ \E e \in Event : Emit(PointerTo(e))
    \/ EmitSteps

SpecTyped == InitTyped /\ [][NextTyped]_vars

(***************************************************************************)
(* Registration of states: the engine of the restore test, whose counter   *)
(* adds the value of every order.  States are registered again, with the   *)
(* initial value Replaced, and reducers are attached to either name, also  *)
(* to the total while it is not registered; callers then emit events.      *)
(***************************************************************************)
Replaced == 2

InitStates ==
    /\ validators = [t \in EventTypes |-> << >>]
    /\ exceptions = [t \in EventTypes |-> << >>]
    /\ beforeHooks = [t \in EventTypes |-> << >>]
    /\ listeners = [t \in EventTypes |-> << >>]
    /\ states = [name \in StateNames |->
            IF name = "counter"
            THEN [exists |-> TRUE, InitialState |-> 1,
                  Reducers |-> [t \in EventTypes |->
                      IF t = "order_placed" THEN "AddValue" ELSE NoReducer]]
            ELSE Unregistered]
    /\ orderedReducers = [t \in EventTypes |-> << >>]
    /\ events = << >>
    /\ snapshots = Unsupported
    /\ stack = << >>
    /\ eventFactories = [t \in EventTypes |-> NoFactory]
    /\ NothingCalled

NextStates ==
    \/ \E name \in StateNames : RegisterState(name, Replaced)
    \/ \E name \in StateNames, r \in Reducers :
            WithReducer("order_placed", name, r)
    \/ \E e \in Event : Emit(e)
    \/ Commit
    \/ EmitReturn

SpecStates == InitStates /\ [][NextStates]_vars

(***************************************************************************)
(* Conditional side effects: the engine of TestEmitFluentAPI, on which the *)
(* listener built with If and a ConditionalListener are registered as      *)
(* listeners and before-hooks of player_registered.  Callers emit          *)
(* registrations of creators and of players; the repository is the         *)
(* in-memory one of NewEngine, whose Add returns no error.                 *)
(***************************************************************************)
Conditionals == {"GrantTokens", "WelcomeCreator"}

InitConditional ==
    /\ validators = [t \in PlayerEventTypes |-> << >>]
    /\ exceptions = [t \in PlayerEventTypes |-> << >>]
    /\ beforeHooks = [t \in PlayerEventTypes |-> << >>]
    /\ listeners = [t \in PlayerEventTypes |-> << >>]
    /\ states = [name \in {"counter"} |->
            [exists |-> TRUE, InitialState |-> 1,
             Reducers |-> [t \in PlayerEventTypes |->
                 IF t = "tokens_granted" THEN "AddValue" ELSE NoReducer]]]
    /\ orderedReducers = [t \in PlayerEventTypes |-> << >>]
    /\ events = << >>
    /\ snapshots = Unsupported
    /\ stack = << >>
    /\ eventFactories = [t \in PlayerEventTypes |-> NoFactory]
    /\ NothingCalled

NextConditional ==
    \/ \E h \in Conditionals : RegisterBeforeHook("player_registered", h)
    \/ \E h \in Conditionals : RegisterListener("player_registered", h)
    \/ \E e \in PlayerRegistered : Emit(e)
    \/ RunBeforeHook
    \/ Commit /\ trace'[Len(trace')].ok
    \/ RunListener
    \/ EmitReturn
    \/ HandlerEmit
    \/ HandlerReturn

SpecConditional == InitConditional /\ [][NextConditional]_vars

(***************************************************************************)
(* Decoding: the engine of the restore test, on which any event factories  *)
(* are registered.  Callers load the log from JSON that holds wrappers of  *)
(* orders and invoices, wrappers whose data is a string where the struct   *)
(* is expected, and elements that are no objects, and read the states.     *)
(***************************************************************************)
JSONInputs ==
    LET elements ==
            {EventWrapper(e) : e \in ReplayedEvents}
                \cup {[Type |-> t, Data |-> [text |-> "two"]] : t \in EventTypes}
                \cup {[number |-> 7]}
    IN UNION {[1..n -> elements] : n \in 0..MaxRestored}

NextDecode ==
    \/ \E t \in EventTypes, f \in Factories : RegisterEventType(t, f)
    \/ \E jsonData \in JSONInputs : Load(jsonData)
    \/ \E name \in StateNames : GetStateCall(name)

SpecDecode == InitReplay /\ [][NextDecode]_vars

(***************************************************************************)
(* An engine whose before-hook commits an event that its validator reads:  *)
(* only the first grant of tokens is accepted, and a grant of one token    *)
(* is preceded by a bonus grant of two, emitted by its before-hook.        *)
(* Callers emit grants and registrations into the empty log.               *)
(***************************************************************************)
TokensGranted == {[type |-> "tokens_granted", amount |-> a] : a \in {1, 2}}

InitHooked ==
    /\ validators = [t \in PlayerEventTypes |->
            IF t = "tokens_granted" THEN << "GameNotStarted" >> ELSE << >>]
    /\ exceptions = [t \in PlayerEventTypes |-> << >>]
    /\ beforeHooks = [t \in PlayerEventTypes |->
            IF t = "tokens_granted" THEN << "GrantTokens" >> ELSE << >>]
    /\ listeners = [t \in PlayerEventTypes |-> << >>]
    /\ states = [name \in {"counter"} |->
            [exists |-> TRUE, InitialState |-> 1,
             Reducers |-> [t \in PlayerEventTypes |->
                 IF t = "tokens_granted" THEN "AddValue" ELSE NoReducer]]]
    /\ orderedReducers = [t \in PlayerEventTypes |-> << >>]
    /\ events = << >>
    /\ snapshots = Unsupported
    /\ stack = << >>
    /\ eventFactories = [t \in PlayerEventTypes |-> NoFactory]
    /\ NothingCalled

NextHooked ==
    \/ \E t \in PlayerEventTypes, h \in Emitters : RegisterBeforeHook(t, h)
    \/ \E t \in PlayerEventTypes, h \in Emitters : RegisterListener(t, h)
    \/ \E e \in PlayerRegistered \cup TokensGranted :
            events = << >> /\ Emit(e)
    \/ EmitSteps

SpecHooked == InitHooked /\ [][NextHooked]_vars

(***************************************************************************)
(* The tic-tac-toe game: NewGame registers the state of the game, the      *)
(* validators of a start and of a move, the listener that ends the game    *)
(* after a move, and the three reducers.  Callers start games and make     *)
(* moves for either player on the cells Tried.  The repository is the      *)
(* in-memory one of NewEngine, whose Add returns no error.                 *)
(***************************************************************************)
InitGame ==
    /\ validators = [t \in GameEventTypes |->
            CASE t = "game_started" -> << "GameNotStarted" >>
              [] t = "move_made" -> << "ValidMove" >>
              [] OTHER -> << >>]
    /\ exceptions = [t \in GameEventTypes |-> << >>]
    /\ beforeHooks = [t \in GameEventTypes |-> << >>]
    /\ listeners = [t \in GameEventTypes |->
            IF t = "move_made" THEN << "CheckForWinner" >> ELSE << >>]
    /\ states = [name \in {"game"} |->
            [exists |-> TRUE, InitialState |-> NewBoardState,
             Reducers |-> [t \in GameEventTypes |->
                 CASE t = "game_started" -> "ReduceGameStarted"
                   [] t = "move_made" -> "ReduceMoveMade"
                   [] OTHER -> "ReduceGameEnded"]]]
    /\ orderedReducers = [t \in GameEventTypes |-> << >>]
    /\ events = << >>
    /\ snapshots = Unsupported
    /\ stack = << >>
    /\ eventFactories = [t \in GameEventTypes |-> "pointer"]
    /\ NothingCalled

\* g.engine.Emit(event) of StartGame and MakeMove; the error they return
\* says whether Emit returned false.
GameEmit(event) ==
    /\ stack = << >>
    /\ stack' = << EmitFrame(1, event, Stages[1], 1) >>
    /\ calls' = << Call(event, 0, "caller") >>
    /\ trace' = << >>
    /\ loaded' = NotLoaded
    /\ UNCHANGED << registries, events, accepted, returned, snapshots,
                    outcome >>

StartGame(playerX, playerO) == GameEmit(GameStartedEvent(playerX, playerO))

MakeMove(player, position) == GameEmit(MoveMadeEvent(player, position))

\* The positions callers try: six cells of the board, which hold a row for
\* each player, and two positions off the board.
Tried == {0, 1, 2, 3, 4, 5} \cup {-1, 9}

\* The pairs of players StartGame is called with.
Players == {<< "Alice", "Bob" >>, << "Charlie", "Dave" >>}

NextGame ==
    \/ \E names \in Players : StartGame(names[1], names[2])
    \/ \E player \in {"X", "O"}, position \in Tried : MakeMove(player, position)
    \/ RunValidator
    \/ Commit /\ trace'[Len(trace')].ok
    \/ RunListener
    \/ EmitReturn
    \/ HandlerEmit
    \/ HandlerReturn

SpecGame == InitGame /\ [][NextGame]_vars

\* The game of TestTicTacToeDraw after its first four moves; callers then
\* make moves on any cell of the board, so that the board can fill up.
Opening ==
    << GameStartedEvent("Alice", "Bob"),
       MoveMadeEvent("X", 0), MoveMadeEvent("O", 1),
       MoveMadeEvent("X", 2), MoveMadeEvent("O", 4) >>

InitEndgame ==
    /\ validators = [t \in GameEventTypes |->
            CASE t = "game_started" -> << "GameNotStarted" >>
              [] t = "move_made" -> << "ValidMove" >>
              [] OTHER -> << >>]
    /\ exceptions = [t \in GameEventTypes |-> << >>]
    /\ beforeHooks = [t \in GameEventTypes |-> << >>]
    /\ listeners = [t \in GameEventTypes |->
            IF t = "move_made" THEN << "CheckForWinner" >> ELSE << >>]
    /\ states = [name \in {"game"} |->
            [exists |-> TRUE, InitialState |-> NewBoardState,
             Reducers |-> [t \in GameEventTypes |->
                 CASE t = "game_started" -> "ReduceGameStarted"
                   [] t = "move_made" -> "ReduceMoveMade"
                   [] OTHER -> "ReduceGameEnded"]]]
    /\ orderedReducers = [t \in GameEventTypes |-> << >>]
    /\ events = Opening
    /\ snapshots = Unsupported
    /\ stack = << >>
    /\ eventFactories = [t \in GameEventTypes |-> "pointer"]
    /\ NothingCalled

NextEndgame ==
    \/ StartGame("Charlie", "Dave")
    \/ \E player \in {"X", "O"}, position \in BoardPositions :
            MakeMove(player, position)
    \/ RunValidator
    \/ Commit /\ trace'[Len(trace')].ok
    \/ RunListener
    \/ EmitReturn
    \/ HandlerEmit
    \/ HandlerReturn

SpecEndgame == InitEndgame /\ [][NextEndgame]_vars

(***************************************************************************)
(* What the history variables say about the calls of Emit.                 *)
(***************************************************************************)
Finished(id) == calls[id].result # "pending"

\* The log as it was when call id was entered.
LogAt(id) == SubSeq(events, 1, calls[id].start)

\* The steps call id has run so far, in order.
StepsOf(id) == SelectSeq(trace, LAMBDA s : s.id = id)

Ran(id, op) == {k \in 1..Len(trace) : trace[k].id = id /\ trace[k].op = op}

AddFailed(id) == \E k \in Ran(id, "add") : ~trace[k].ok

RejectedByValidator(id) == \E k \in Ran(id, "validate") : ~trace[k].ok

Children(id, via) ==
    {c \in DOMAIN calls : calls[c].parent = id /\ calls[c].via = via}

\* Validator k of the event's type is suppressed for the event of call id:
\* an exception of that type names this validator and its condition holds.
Excepted(id, k) ==
    LET t == calls[id].event.type IN
    \E x \in 1..Len(exceptions[t]) :
        /\ exceptions[t][x].Validator = validators[t][k]
        /\ Condition(exceptions[t][x].Condition, LogAt(id), calls[id].event)

\* Validator k of the event's type returns true for the event of call id.
Holds(id, k) ==
    Validate(validators[calls[id].event.type][k], LogAt(id), calls[id].event)

\* Every validator of the event's type returns true or is suppressed.
Passes(id) ==
    \A k \in 1..Len(validators[calls[id].event.type]) :
        Excepted(id, k) \/ Holds(id, k)

InLog(id) ==
    /\ calls[id].index \in 1..Len(events)
    /\ events[calls[id].index] = calls[id].event

(***************************************************************************)
(* C1.  Emit(e) returns true and e is in the log afterwards whenever every *)
(* validator of e's type returns true or is skipped by an exception whose  *)
(* condition holds (also when there is no validator) and Add succeeds;     *)
(* when some validator that is not skipped returns false, Emit(e) returns  *)
(* false and no entry for e is appended.                                   *)
(***************************************************************************)
C1_AcceptedIffValidatorsPass ==
    \A id \in DOMAIN calls :
        Finished(id) =>
            /\ (Passes(id) /\ ~AddFailed(id)) =>
                    (calls[id].result = "accepted" /\ InLog(id))
            /\ ~Passes(id) =>
                    /\ calls[id].result = "rejected"
                    /\ calls[id].index = 0
                    /\ Ran(id, "add") = {}

\* An order admitted past two validators, one of them skipped by an exception.
C1_Witness ==
    /\ stack = << >>
    /\ calls # << >>
    /\ calls[1].result = "accepted"
    /\ InLog(1)
    /\ Len(validators[calls[1].event.type]) = 2
    /\ \E k \in 1..2 : Excepted(1, k) /\ ~Holds(1, k)
    /\ \E k \in 1..2 : ~Excepted(1, k) /\ Holds(1, k)

(***************************************************************************)
(* C2.  When a validator rejects Emit(e) nothing else happens: the log is  *)
(* as it was, Add is not called, and no before-hook and no listener of     *)
(* e's type runs, and nothing is emitted on e's behalf.                    *)
(***************************************************************************)
C2_RejectionHasNoEffect ==
    \A id \in DOMAIN calls :
        RejectedByValidator(id) =>
            /\ calls[id].result = "rejected"
            /\ calls[id].index = 0
            /\ Ran(id, "hook") = {}
            /\ Ran(id, "add") = {}
            /\ Ran(id, "listener") = {}
            /\ Children(id, "hook") = {}
            /\ Children(id, "listener") = {}
            /\ \A k \in Ran(id, "validate") : trace[k].at = calls[id].start
            /\ (id = 1 => events = LogAt(id))

\* An order rejected on an engine that has a before-hook and a listener for
\* orders.
C2_Witness ==
    /\ stack = << >>
    /\ calls # << >>
    /\ RejectedByValidator(1)
    /\ beforeHooks[calls[1].event.type] # << >>
    /\ listeners[calls[1].event.type] # << >>
    /\ events # << >>

(***************************************************************************)
(* C3.  An event committed by an Emit made from a before-hook of e lies    *)
(* in the log below e's own entry, and an event committed by an Emit made  *)
(* from a listener of e lies above it.                                     *)
(***************************************************************************)
C3_HookEntriesBeforeListenerEntriesAfter ==
    \A c \in DOMAIN calls :
        LET p == calls[c].parent IN
        (p # 0 /\ calls[c].index # 0) =>
            /\ InLog(c)
            /\ (calls[c].via = "hook" /\ calls[p].index # 0) =>
                    calls[c].index < calls[p].index
            /\ calls[c].via = "listener" =>
                    /\ InLog(p)
                    /\ calls[c].index > calls[p].index

\* An accepted order with an invoice committed by one of its before-hooks and
\* another committed by one of its listeners.
C3_Witness ==
    /\ stack = << >>
    /\ calls # << >>
    /\ calls[1].result = "accepted"
    /\ \E c \in Children(1, "hook") : calls[c].result = "accepted"
    /\ \E c \in Children(1, "listener") : calls[c].result = "accepted"

(***************************************************************************)
(* C4.  For one event: its validators run first, then all its before-hooks *)
(* in registration order, then the event is appended to the log, then all  *)
(* its listeners in registration order.  No listener runs before the       *)
(* append, no before-hook after it, and no before-hook before the last     *)
(* validator has accepted.                                                 *)
(***************************************************************************)
\* The steps of an accepted Emit of an event of type t, in order.
C4_Order(t) ==
    [k \in 1..Len(validators[t]) |-> [op |-> "validate", i |-> k]]
    \o [k \in 1..Len(beforeHooks[t]) |-> [op |-> "hook", i |-> k]]
    \o << [op |-> "add", i |-> 0] >>
    \o [k \in 1..Len(listeners[t]) |-> [op |-> "listener", i |-> k]]
    \o << [op |-> "return", i |-> 0] >>

C4_Ran(id) ==
    [k \in 1..Len(StepsOf(id)) |->
        [op |-> IF StepsOf(id)[k].op = "skip" THEN "validate"
                ELSE StepsOf(id)[k].op,
         i |-> StepsOf(id)[k].i]]

C4_PipelineOrder ==
    \A id \in DOMAIN calls :
        LET order == C4_Order(calls[id].event.type)
            ran == C4_Ran(id)
        IN /\ Len(ran) <= Len(order)
           /\ ran = SubSeq(order, 1, Len(ran))
           /\ calls[id].result = "accepted" => ran = order
           /\ \A k \in 1..Len(StepsOf(id)) :
                LET s == StepsOf(id)[k] IN
                /\ s.op \in {"validate", "skip", "hook"} => calls[id].index = 0
                                                            \/ s.at < calls[id].index
                /\ s.op = "hook" => \A j \in 1..(k - 1) : StepsOf(id)[j].ok
                /\ s.op \in {"listener", "return"} =>
                        InLog(id) /\ s.at >= calls[id].index

\* An accepted order that passed a validator and ran two before-hooks and a
\* listener, or a before-hook and two listeners.
C4_Witness ==
    /\ stack = << >>
    /\ calls # << >>
    /\ calls[1].result = "accepted"
    /\ Ran(1, "validate") \cup Ran(1, "skip") # {}
    /\ Cardinality(Ran(1, "hook")) + Cardinality(Ran(1, "listener")) >= 3
    /\ Ran(1, "hook") # {}
    /\ Ran(1, "listener") # {}

(***************************************************************************)
(* C5.  If Add returns an error for an event that passed validation, Emit  *)
(* returns false, no entry for the event is in the log, none of its        *)
(* listeners runs, and Add was attempted exactly once for that Emit.       *)
(***************************************************************************)
C5_AddFailureRejects ==
    \A id \in DOMAIN calls :
        AddFailed(id) =>
            /\ Passes(id)
            /\ calls[id].result = "rejected"
            /\ calls[id].index = 0
            /\ Ran(id, "listener") = {}
            /\ Children(id, "listener") = {}
            /\ Cardinality(Ran(id, "add")) = 1
            /\ \A k \in Ran(id, "add") :
                    IF k < Len(trace)
                    THEN trace[k + 1].at = trace[k].at
                    ELSE Len(events) = trace[k].at

\* A failed Add of an order that has a listener.
C5_Witness ==
    /\ stack = << >>
    /\ calls # << >>
    /\ AddFailed(1)
    /\ listeners[calls[1].event.type] # << >>
    /\ validators[calls[1].event.type] # << >>

C7_ExceptionIsValidatorSpecific ==
    \A id \in DOMAIN calls :
        LET t == calls[id].event.type IN
        /\ \A k \in Ran(id, "skip") : Excepted(id, trace[k].i)
        /\ Finished(id) =>
            \A b \in 1..Len(validators[t]) :
                (/\ ~Holds(id, b)
                 /\ \A x \in 1..Len(exceptions[t]) :
                        exceptions[t][x].Validator # validators[t][b])
                => calls[id].result = "rejected" /\ calls[id].index = 0

\* A free order rejected by validator B although the exception registered for
\* another validator A applies to it.
C7_Witness ==
    /\ stack = << >>
    /\ calls # << >>
    /\ calls[1].result = "rejected"
    /\ LET t == calls[1].event.type IN
       \E a, b \in 1..Len(validators[t]) :
            /\ validators[t][a] # validators[t][b]
            /\ Excepted(1, a)
            /\ ~Excepted(1, b)
            /\ ~Holds(1, b)
            /\ Ran(1, "skip") # {}

\* The checks that C8 asks of a call of Emit.
C8_CheckedWhereConditionFails ==
    \A id \in DOMAIN calls :
        LET t == calls[id].event.type IN
        /\ \A k \in Ran(id, "skip") : Excepted(id, trace[k].i)
        /\ Finished(id) =>
            \A b \in 1..Len(validators[t]) :
                ~Excepted(id, b) =>
                    /\ ~Holds(id, b) => calls[id].result = "rejected"
                    /\ (\A j \in 1..(b - 1) : Excepted(id, j) \/ Holds(id, j))
                        => \E k \in Ran(id, "validate") :
                                trace[k].i = b /\ trace[k].ok = Holds(id, b)

\* C8 also asks that Emit leaves the validators and the exceptions as they
\* were registered.
C8_ValidatorsStayRegistered ==
    (stack # << >> \/ stack' # << >>) =>
        (validators' = validators /\ exceptions' = exceptions)

(***************************************************************************)
(* C8.  An exception suppresses its validator only for the events on which *)
(* its condition holds, and the validator stays registered: an event for   *)
(* which the condition is false is still checked by the validator, and     *)
(* rejected if it returns false, whatever was admitted through the         *)
(* exception before.                                                       *)
(***************************************************************************)
C8_ExceptionOnlyWhereConditionHolds ==
    /\ []C8_CheckedWhereConditionFails
    /\ [][C8_ValidatorsStayRegistered]_vars

\* A paid order rejected by RequirePayment after a free order was admitted
\* through the exception of that validator.
C8_Witness ==
    /\ stack = << >>
    /\ calls # << >>
    /\ calls[1].event.type = "order_placed"
    /\ validators["order_placed"] = << "RequirePayment" >>
    /\ \E k \in 1..Len(events) :
            events[k].type = "order_placed" /\ events[k].amount = 0
    /\ calls[1].event.amount # 0
    /\ RejectedByValidator(1)

(***************************************************************************)
(* The projection, stated over the log.                                    *)
(***************************************************************************)
\* The state of name after the first n events of the log: the state after
\* the first n - 1 events, put through the reducers of event n.
RECURSIVE LeftFold(_, _)
LeftFold(name, n) ==
    IF n = 0
    THEN states[name].InitialState
    ELSE Apply(name, LeftFold(name, n - 1), events[n])

\* The sum of the values of the first n events of the log that are of a
\* type in types.
RECURSIVE SumOfValues(_, _)
SumOfValues(types, n) ==
    IF n = 0
    THEN 0
    ELSE SumOfValues(types, n - 1)
            + (IF events[n].type \in types THEN events[n].amount ELSE 0)

\* The event types for which name has the regular reducer AddValue.
Counted(name) ==
    {t \in EventTypes : states[name].Reducers[t] = "AddValue"}

\* name is a counter: its only reducers are regular reducers AddValue, and
\* no event type has ordered reducers.
IsCounter(name) ==
    /\ states[name].exists
    /\ Counted(name) # {}
    /\ \A t \in EventTypes :
        /\ states[name].Reducers[t] \in {"AddValue", NoReducer}
        /\ orderedReducers[t] = << >>

(***************************************************************************)
(* C9.  GetState(name) of a registered state is the left fold of the       *)
(* state's reducers over the whole log, in commit order, from the          *)
(* registered initial value.  For a counter, whose reducer adds the        *)
(* event's value, it is the initial value plus the sum of the values of    *)
(* the committed events; rejected events, which are not in the log,        *)
(* contribute nothing.                                                     *)
(***************************************************************************)
C9_ProjectionIsLeftFold ==
    \A name \in StateNames :
        states[name].exists =>
            /\ GetState(name) = LeftFold(name, Len(events))
            /\ IsCounter(name) =>
                GetState(name) = states[name].InitialState
                                    + SumOfValues(Counted(name), Len(events))

\* A counter after an invoice of value 2 and an order of value 1 were
\* committed and an order of value 2 was rejected by the validator: the
\* counter, which counts the orders, is the initial value plus 1.
C9_Witness ==
    /\ stack = << >>
    /\ calls # << >>
    /\ RejectedByValidator(1)
    /\ calls[1].event = [type |-> "order_placed", amount |-> 2]
    /\ events = << [type |-> "invoice_generated", amount |-> 2],
                   [type |-> "order_placed", amount |-> 1] >>
    /\ IsCounter("counter")
    /\ GetState("counter") = states["counter"].InitialState + 1

\* The ordered reducers of type t that target the state name, in the order
\* of the registry.
Targeting(t, name) ==
    SelectSeq(orderedReducers[t], LAMBDA r : r.StateName = name)

\* The reducers rs applied one after the other, first to last.
RECURSIVE ApplyAll(_, _, _)
ApplyAll(rs, state, event) ==
    IF rs = << >>
    THEN state
    ELSE Reduce(rs[Len(rs)].Reducer,
                ApplyAll(SubSeq(rs, 1, Len(rs) - 1), state, event), event)

Ascending(rs) ==
    \A i, j \in 1..Len(rs) : i < j => rs[i].Priority <= rs[j].Priority

\* How often x occurs in the sequence rs.
Occurrences(rs, x) == Cardinality({k \in 1..Len(rs) : rs[k] = x})

\* What C10 says one event of the log does to the state name.
C10_Expected(name, state, event) ==
    IF Len(orderedReducers[event.type]) > 0
    THEN ApplyAll(Targeting(event.type, name), state, event)
    ELSE IF states[name].Reducers[event.type] \in Reducers
    THEN Reduce(states[name].Reducers[event.type], state, event)
    ELSE state

\* The registry of ordered reducers is kept in ascending priority, and every
\* event of the log does to every registered state what C10 says.
C10_EveryEvent ==
    /\ \A t \in EventTypes : Ascending(orderedReducers[t])
    /\ \A name \in StateNames :
        states[name].exists =>
            \A n \in 1..Len(events) :
                Project(name, states[name].InitialState, SubSeq(events, 1, n))
                    = C10_Expected(name,
                          Project(name, states[name].InitialState,
                                  SubSeq(events, 1, n - 1)),
                          events[n])

\* A registration adds its ordered reducer to those of the event type and
\* loses none.
C10_Registration ==
    \A t \in EventTypes :
        orderedReducers'[t] # orderedReducers[t] =>
            \E r \in OrderedReducer :
                \A x \in OrderedReducer :
                    Occurrences(orderedReducers'[t], x)
                        = Occurrences(Append(orderedReducers[t], r), x)

(***************************************************************************)
(* C10.  In the projection of state S, a log event of type T for which any *)
(* ordered reducer is registered goes through exactly the ordered reducers *)
(* of T that target S, in ascending priority, and not through the regular  *)
(* reducer of (S, T); an event of a type without ordered reducers goes     *)
(* through the regular reducer of (S, T) if there is one, and otherwise    *)
(* leaves S unchanged.                                                     *)
(***************************************************************************)
C10_OrderedReducersReplaceRegular ==
    /\ []C10_EveryEvent
    /\ [][C10_Registration]_vars

\* The counter has the regular reducer AddValue for orders, and two ordered
\* reducers of orders target it: Double with priority 2 and AddValue with
\* priority 1.  After an order of value 1 and an invoice the counter is
\* (1 + 1) * 2; the total, which has a regular reducer for orders but no
\* ordered one, is still its initial value.
C10_Witness ==
    /\ stack = << >>
    /\ events = << [type |-> "order_placed", amount |-> 1],
                   [type |-> "invoice_generated", amount |-> 2] >>
    /\ states["counter"].exists
    /\ states["counter"].Reducers["order_placed"] = "AddValue"
    /\ orderedReducers["order_placed"] =
        << [StateName |-> "counter", Reducer |-> "AddValue", Priority |-> 1],
           [StateName |-> "counter", Reducer |-> "Double", Priority |-> 2] >>
    /\ GetState("counter") = 4
    /\ states["total"].exists
    /\ states["total"].Reducers["order_placed"] = "AddValue"
    /\ GetState("total") = states["total"].InitialState

\* The state of name after the first n events of the log when each event
\* goes through the regular reducer name has for its type, if any, and
\* through nothing else.
RECURSIVE RegularFold(_, _)
RegularFold(name, n) ==
    IF n = 0
    THEN states[name].InitialState
    ELSE LET reducer == states[name].Reducers[events[n].type]
             state == RegularFold(name, n - 1)
         IN IF reducer \in Reducers
            THEN Reduce(reducer, state, events[n])
            ELSE state

\* No ordered reducer targets the state name.
OnlyRegular(name) ==
    \A t \in EventTypes :
        \A k \in 1..Len(orderedReducers[t]) :
            orderedReducers[t][k].StateName # name

C12_Called(name) == returned'[name].count = returned[name].count + 1

C12_Pure(name) ==
    /\ events' = events
    /\ \A other \in StateNames :
        /\ Panics(other, GetEvents)' = Panics(other, GetEvents)
        /\ GetState(other)' = GetState(other)
    /\ returned[name].count > 0 =>
            returned'[name].value = returned[name].value

AllFactoriesRegistered ==
    \A k \in 1..Len(events) : eventFactories[events[k].type] # NoFactory

\* GetState(name) returns the same for the logs evs and es.
SameState(name, evs, es) ==
    /\ Panics(name, evs) = Panics(name, es)
    /\ ~Panics(name, evs) =>
            Project(name, states[name].InitialState, evs)
                = Project(name, states[name].InitialState, es)

C13_RoundTripPreservesStates ==
    (stack = << >> /\ AllFactoriesRegistered) =>
        LET restored == UnmarshalEvents(MarshalEvents(GetEvents))
        IN /\ Len(restored) = Len(events)
           /\ \A k \in 1..Len(events) :
                /\ restored[k].type = events[k].type
                /\ restored[k].amount = events[k].amount
           /\ \A name \in StateNames : SameState(name, events, restored)

(***************************************************************************)
(* C14: UnmarshalEvents drops every wrapper whose type has no registered   *)
(* factory and returns all the other events, in the order they have in     *)
(* the JSON array.                                                         *)
(***************************************************************************)
HasFactory(event) == eventFactories[event.type] # NoFactory

C14_UnknownTypesAreSkipped ==
    LET restored == UnmarshalEvents(MarshalEvents(GetEvents))
        kept == SelectSeq(events, HasFactory)
    IN /\ Len(restored) = Len(kept)
       /\ \A k \in 1..Len(kept) :
            /\ restored[k].type = kept[k].type
            /\ restored[k].amount = kept[k].amount

\* Invoices have a factory and orders have none; the order between the two
\* invoices of the log is dropped.
C14_Witness ==
    /\ stack = << >>
    /\ eventFactories["order_placed"] = NoFactory
    /\ eventFactories["invoice_generated"] # NoFactory
    /\ events = << [type |-> "invoice_generated", amount |-> 1],
                   [type |-> "order_placed", amount |-> 1],
                   [type |-> "invoice_generated", amount |-> 2] >>
    /\ UnmarshalEvents(MarshalEvents(GetEvents))
        = << PointerTo([type |-> "invoice_generated", amount |-> 1]),
             PointerTo([type |-> "invoice_generated", amount |-> 2]) >>

(***************************************************************************)
(* C15: SetEvents(es) replaces the whole log.  After the call GetEvents()  *)
(* is exactly es and GetState is the fold of es alone, whatever the log    *)
(* held before; the call runs no validator, before-hook or listener.       *)
(***************************************************************************)
\* The step is a call of SetEvents.
C15_Called == loaded'.set /\ loaded' # loaded

C15_Replaced ==
    /\ GetEvents' = loaded'.events
    /\ \A name \in StateNames :
        /\ Panics(name, GetEvents)' = Panics(name, loaded'.events)
        /\ ~Panics(name, loaded'.events) =>
                GetState(name)'
                    = Project(name, states[name].InitialState, loaded'.events)
    /\ trace' = trace
    /\ calls' = calls
    /\ stack' = << >>

\* The log stays what was loaded until the next Emit.
C15_LogIsWhatWasLoaded == loaded.set => GetEvents = loaded.events

C15_SetEventsReplacesTheLog ==
    /\ []C15_LogIsWhatWasLoaded
    /\ [][C15_Called => C15_Replaced]_vars

\* An invoice was emitted and accepted; then a log of two orders was loaded,
\* one of which the inventory check would have rejected.  The invoice is
\* gone, the total was doubled twice, and nothing ran after the Emit.
C15_Witness ==
    /\ loaded.set
    /\ events = << [type |-> "order_placed", amount |-> 1],
                   PointerTo([type |-> "order_placed", amount |-> 2]) >>
    /\ calls # << >>
    /\ calls[1].event.type = "invoice_generated"
    /\ calls[1].result = "accepted"
    /\ \A k \in 1..Len(trace) : trace[k].op \in {"add", "return"}
    /\ GetState("total") = 4 * states["total"].InitialState

(***************************************************************************)
(* C16: under Emit calls alone, nested ones included, the log is           *)
(* append-only: the log before a step is a prefix of the log after it.     *)
(* Every Emit that returns true has appended exactly one entry, so the     *)
(* log of an engine that started empty is as long as the number of Emit    *)
(* calls that returned true.                                               *)
(***************************************************************************)
IsPrefix(s, t) == Len(s) <= Len(t) /\ SubSeq(t, 1, Len(s)) = s

\* The calls of Emit in progress that have appended their event and have
\* not returned yet.
Committing ==
    {k \in 1..Len(stack) :
        stack[k].kind = "emit" /\ stack[k].pc \in {"listeners", "return"}}

C16_Counted == Len(events) = accepted + Cardinality(Committing)

C16_Appended ==
    /\ IsPrefix(events, events')
    /\ Len(events') <= Len(events) + 1
    /\ accepted' > accepted => events' = events

C16_LogIsAppendOnly == []C16_Counted /\ [][C16_Appended]_vars

\* An order whose before-hook emitted an invoice, which was accepted, and
\* whose own Add then failed, after an earlier accepted call: two entries,
\* two calls that returned true, one that returned false.
C16_Witness ==
    /\ stack = << >>
    /\ Len(calls) = 2
    /\ calls[1].result = "rejected"
    /\ calls[1].start = 1
    /\ calls[2].result = "accepted"
    /\ Len(events) = 2
    /\ accepted = 2

(***************************************************************************)
(* C17: when a state has a snapshot, GetState starts from the registered   *)
(* initial value overlaid with the snapshot and folds the entire log,      *)
(* the events committed before the snapshot was set included: the          *)
(* snapshot does not filter or truncate the log.  With the initial value   *)
(* {score 0, level 1}, the snapshot {score 100, level 5} and the events    *)
(* +1 and +2 the state is {score 103, level 5}.                            *)
(***************************************************************************)
\* The value of field f in the JSON object, or default when it has none.
Member(object, f, default) ==
    IF \E member \in object : member[1] = f
    THEN (CHOOSE member \in object : member[1] = f)[2]
    ELSE default

C17_Seeded(name) ==
    LET initial == states[name].InitialState
        object == GetSnapshot(name).object
    IN GetStateWithSnapshot(name)
        = [score |-> Member(object, "score", initial.score)
                        + SumOfValues({"order_placed"}, Len(events)),
           level |-> Member(object, "level", initial.level)]

C17_SnapshotSeedsTheFold ==
    \A name \in DOMAIN states :
        (HasSnapshot(name) /\ GetSnapshot(name).valid) => C17_Seeded(name)

\* The snapshot {score 100, level 5} was set after the first of two events.
C17_Witness ==
    /\ stack = << >>
    /\ outcome.op = "SetSnapshot"
    /\ outcome.error = ""
    /\ outcome.at = 1
    /\ GetSnapshot("game") = Bytes({<< "score", 100 >>, << "level", 5 >>})
    /\ events = << [type |-> "order_placed", amount |-> 1],
                   [type |-> "order_placed", amount |-> 2] >>
    /\ GetStateWithSnapshot("game") = [score |-> 103, level |-> 5]

(***************************************************************************)
(* C18: the snapshot merge is a field-wise overlay.  A field that the      *)
(* snapshot has takes the snapshot's value, a field that it has not keeps  *)
(* the initial value, and merging an empty snapshot returns the initial    *)
(* value unchanged.                                                        *)
(***************************************************************************)
\* merged is value with the members of object laid over it.
C18_Overlaid(value, object, merged) ==
    /\ DOMAIN merged = DOMAIN value
    /\ \A member \in object :
            member[1] \in DOMAIN value => merged[member[1]] = member[2]
    /\ \A f \in DOMAIN value :
            (\A member \in object : member[1] # f) => merged[f] = value[f]
    /\ object = {} => merged = value

\* What a call of mergeSnapshot returned, for an initial value that can be
\* serialized and bytes that are JSON.
C18_Merged ==
    LET value == IF IsPointer(outcome.initial)
                 THEN outcome.initial.to
                 ELSE outcome.initial
    IN (outcome.op = "mergeSnapshot" /\ outcome.data.valid
            /\ Marshalable(value))
        => C18_Overlaid(value, outcome.data.object, outcome.result)

\* What GetState returns for a state with a snapshot, before any event.
C18_Seeded ==
    \A name \in DOMAIN states :
        (HasSnapshot(name) /\ GetSnapshot(name).valid /\ events = << >>)
            => C18_Overlaid(states[name].InitialState,
                            GetSnapshot(name).object,
                            GetStateWithSnapshot(name))

C18_MergeIsFieldWiseOverlay == C18_Merged /\ C18_Seeded

\* The state has the empty snapshot and projects to its initial value; the
\* snapshot {score 50} was merged with {score 0, level 1}.
C18_Witness ==
    /\ events = << >>
    /\ GetSnapshot("game") = Bytes({})
    /\ GetStateWithSnapshot("game") = NewGameState
    /\ outcome.op = "mergeSnapshot"
    /\ outcome.initial = NewGameState
    /\ outcome.data = Bytes({<< "score", 50 >>})
    /\ outcome.result = [score |-> 50, level |-> 1]

(***************************************************************************)
(* C19: the snapshot merge is fail-soft.  When the snapshot bytes are      *)
(* malformed, or the initial value cannot be serialized, mergeSnapshot     *)
(* returns the initial value unchanged, and the projection of a state      *)
(* whose snapshot is malformed proceeds from the initial value.            *)
(***************************************************************************)
C19_Returned ==
    LET value == IF IsPointer(outcome.initial)
                 THEN outcome.initial.to
                 ELSE outcome.initial
    IN (outcome.op = "mergeSnapshot"
            /\ (~outcome.data.valid \/ ~Marshalable(value)))
        => outcome.result = outcome.initial

C19_Projected ==
    \A name \in DOMAIN states :
        (HasSnapshot(name) /\ ~GetSnapshot(name).valid)
            => GetStateWithSnapshot(name) = GetState(name)

C19_MergeIsFailSoft == C19_Returned /\ C19_Projected

\* The state has a malformed snapshot and two events, and projects to the
\* fold of the events from the initial value; a snapshot was merged with an
\* initial value that cannot be serialized.
C19_Witness ==
    /\ stack = << >>
    /\ GetSnapshot("game") = Malformed
    /\ Len(events) = 2
    /\ GetStateWithSnapshot("game")
        = [score |-> SumOfValues({"order_placed"}, 2), level |-> 1]
    /\ outcome.op = "mergeSnapshot"
    /\ outcome.initial = Unmarshalable
    /\ outcome.data = Bytes({<< "score", 50 >>})
    /\ outcome.result = Unmarshalable

(***************************************************************************)
(* C20: on an engine whose repository is no SnapshotRepository,            *)
(* SetSnapshot and ClearSnapshot return the error 'does not support        *)
(* snapshots' and change nothing, HasSnapshot returns false, and GetState  *)
(* and Emit behave as they do without a snapshot.                          *)
(***************************************************************************)
C20_Refused ==
    (~snapshots.capable /\ outcome.op \in {"SetSnapshot", "ClearSnapshot"})
        => outcome.error = NotSupported

C20_NoSnapshot ==
    ~snapshots.capable =>
        /\ \A name \in DOMAIN states :
            /\ ~HasSnapshot(name)
            /\ GetSnapshot(name) = Missing
            /\ GetStateWithSnapshot(name) = GetState(name)
        /\ Len(events) = accepted + Cardinality(Committing)

\* A call of SetSnapshot or ClearSnapshot changes nothing of the engine.
C20_NothingChanged ==
    (/\ ~snapshots.capable
     /\ outcome' # outcome
     /\ outcome'.op \in {"SetSnapshot", "ClearSnapshot"})
        => UNCHANGED << registries, events, snapshots, stack >>

C20_SnapshotsNotSupported ==
    /\ [](C20_Refused /\ C20_NoSnapshot)
    /\ [][C20_NothingChanged]_vars

\* SetSnapshot was refused after the first of two events, and the state is
\* the fold of both from the initial value.
C20_Witness ==
    /\ stack = << >>
    /\ ~snapshots.capable
    /\ outcome.op = "SetSnapshot"
    /\ outcome.error = NotSupported
    /\ outcome.at = 1
    /\ events = << [type |-> "order_placed", amount |-> 1],
                   [type |-> "order_placed", amount |-> 2] >>
    /\ ~HasSnapshot("game")
    /\ GetStateWithSnapshot("game") = [score |-> 3, level |-> 1]

(***************************************************************************)
(* C21: with a repository that keeps snapshots, HasSnapshot(name) is true  *)
(* exactly when the last snapshot operation on the name was a SetSnapshot  *)
(* that succeeded: it is false at first, true after SetSnapshot, false     *)
(* after ClearSnapshot, and Emit does not change it.  After ClearSnapshot  *)
(* GetState folds from the registered initial value again.                 *)
(***************************************************************************)
\* The step is a call of op by the caller.
C21_Called(op) == outcome' # outcome /\ outcome'.op = op

C21_Follows ==
    \A name \in DOMAIN states :
        /\ (C21_Called("SetSnapshot") /\ outcome'.name = name)
            => HasSnapshot(name)' = (outcome'.error = "" \/ HasSnapshot(name))
        /\ (C21_Called("ClearSnapshot") /\ outcome'.name = name)
            => /\ ~HasSnapshot(name)'
               /\ GetStateWithSnapshot(name)' = GetState(name)'
        /\ ~C21_Called("SetSnapshot") /\ ~C21_Called("ClearSnapshot")
                /\ ~C21_Called("Seed")
            => HasSnapshot(name)' = HasSnapshot(name)

C21_HasSnapshotFollowsTheLastOperation ==
    /\ snapshots.capable => \A name \in DOMAIN states : ~HasSnapshot(name)
    /\ [][snapshots.capable => C21_Follows]_vars

\* The snapshot that the state had was cleared after the first of two
\* events; the state is the fold of both from the initial value.
C21_Witness ==
    /\ stack = << >>
    /\ snapshots.capable
    /\ outcome.op = "ClearSnapshot"
    /\ outcome.had
    /\ outcome.at = 1
    /\ ~HasSnapshot("game")
    /\ Len(events) = 2
    /\ GetStateWithSnapshot("game")
        = [score |-> SumOfValues({"order_placed"}, 2), level |-> 1]

(***************************************************************************)
(* C22: nested emissions are a synchronous depth-first recursion, not a    *)
(* queue.  When listeners of event e emit events, e's entry comes first in *)
(* the log; what an earlier listener emitted, and everything committed     *)
(* under those emissions, comes before what a later listener emitted; and  *)
(* the events one listener emitted are in the order it emitted them.       *)
(***************************************************************************)
RECURSIVE Under(_, _)
\* Call c is call a, or an Emit made while a handler of a's event was
\* running, at any depth.
Under(c, a) ==
    \/ c = a
    \/ calls[c].parent # 0 /\ Under(calls[c].parent, a)

Committed(id) == calls[id].index > 0

\* Listener emission c1 of an event was made before emission c2 of the same
\* event: by an earlier listener, or earlier by the same listener.
C22_EmittedBefore(c1, c2) ==
    \/ calls[c1].by < calls[c2].by
    \/ calls[c1].by = calls[c2].by /\ c1 < c2

C22_DepthFirst ==
    \A e \in DOMAIN calls :
        \A c1 \in Children(e, "listener") :
            /\ \A d \in DOMAIN calls :
                (Under(d, c1) /\ Committed(d))
                    => Committed(e) /\ calls[e].index < calls[d].index
            /\ \A c2 \in Children(e, "listener") :
                C22_EmittedBefore(c1, c2)
                    => \A d1, d2 \in DOMAIN calls :
                        (/\ Under(d1, c1) /\ Committed(d1)
                         /\ Under(d2, c2) /\ Committed(d2))
                            => calls[d1].index < calls[d2].index

\* The first listener of the registration emitted a grant and a welcome
\* mail, the grant's listener emitted a mail of its own, and the second
\* listener of the registration emitted one more: five entries.
C22_Witness ==
    /\ stack = << >>
    /\ Len(calls) = 5
    /\ \A id \in DOMAIN calls : calls[id].result = "accepted" /\ InLog(id)
    /\ \E c1, c2, c3 \in Children(1, "listener"), d \in DOMAIN calls :
        /\ calls[c1].by = 1 /\ calls[c2].by = 1 /\ calls[c3].by = 2
        /\ calls[d].parent = c1
        /\ calls[1].index = 1
        /\ calls[c1].index = 2
        /\ calls[d].index = 3
        /\ calls[c2].index = 4
        /\ calls[c3].index = 5

(***************************************************************************)
(* C23: an Emit made from inside a hook or a listener goes through the     *)
(* whole pipeline itself.  Its event is committed only if its own          *)
(* validators accept it, and then its own before-hooks and listeners run.  *)
(* When it is rejected, the outer Emit returns what it would have          *)
(* returned anyway, and the outer event's entry is neither removed from    *)
(* the log nor kept out of it.                                             *)
(***************************************************************************)
\* The positions in their list of the handlers of kind op that call id ran.
C23_Handled(id, op) == {trace[k].i : k \in Ran(id, op)}

C23_NestedEmitRunsThePipeline ==
    \A c \in DOMAIN calls :
        LET p == calls[c].parent
            t == calls[c].event.type
        IN (p # 0 /\ Finished(c)) =>
            /\ Committed(c) => Passes(c) /\ InLog(c)
            /\ ~Passes(c) => calls[c].result = "rejected" /\ ~Committed(c)
            /\ calls[c].result = "accepted" =>
                /\ C23_Handled(c, "hook") = 1..Len(beforeHooks[t])
                /\ C23_Handled(c, "listener") = 1..Len(listeners[t])
            /\ calls[c].result = "rejected" =>
                /\ calls[c].via = "listener" => InLog(p)
                /\ Finished(p) =>
                    /\ (calls[p].result = "accepted") = ~AddFailed(p)
                    /\ InLog(p) = ~AddFailed(p)

\* A registration whose listeners emitted two grants: the first was
\* committed and its own listener ran, the second was rejected by the
\* validator of grants, and the registration was accepted and is in the log.
C23_Witness ==
    /\ stack = << >>
    /\ calls # << >>
    /\ calls[1].result = "accepted"
    /\ InLog(1)
    /\ \E c1, c2 \in Children(1, "listener") :
        /\ calls[c1].result = "accepted"
        /\ InLog(c1)
        /\ Ran(c1, "listener") # {}
        /\ Children(c1, "listener") # {}
        /\ RejectedByValidator(c2)
        /\ ~Committed(c2)

(***************************************************************************)
(* C24: while the validators and exception conditions of event e run, the  *)
(* log, and so every projected state, holds only what was committed        *)
(* before Emit(e) was called: e is not in it.  Each validator decides on   *)
(* the log as of before e.                                                 *)
(***************************************************************************)
C24_ValidatorsSeeTheLogBeforeTheEvent ==
    /\ Running("emit", "validate") =>
            /\ ~Committed(Top.id)
            /\ GetEvents = LogAt(Top.id)
    /\ \A id \in DOMAIN calls :
        \A k \in Ran(id, "validate") \cup Ran(id, "skip") :
            /\ trace[k].at = calls[id].start
            /\ Committed(id) => trace[k].at < calls[id].index
            /\ trace[k].op = "validate" => trace[k].ok = Holds(id, trace[k].i)
            /\ trace[k].op = "skip" => Excepted(id, trace[k].i)

\* An order accepted by GameNotStarted, which saw no order in the log; now
\* that the order is in the log the same validator would refuse it.
C24_Witness ==
    /\ stack = << >>
    /\ calls # << >>
    /\ calls[1].result = "accepted"
    /\ InLog(1)
    /\ \E k \in Ran(1, "validate") :
        /\ validators[calls[1].event.type][trace[k].i] = "GameNotStarted"
        /\ trace[k].ok
        /\ ~Validate("GameNotStarted", GetEvents, calls[1].event)

(***************************************************************************)
(* C25: listeners run after the event is committed.  While a listener of   *)
(* event e runs, e is in the log and the projected state has e's reducers  *)
(* applied; while a before-hook of e runs, e is not yet in the log and     *)
(* the state is without it.                                                *)
(***************************************************************************)
RECURSIVE C25_Granted(_)
\* The tokens of the grants among the first n calls that have an entry.
C25_Granted(n) ==
    IF n = 0
    THEN 0
    ELSE C25_Granted(n - 1)
         + (IF Committed(n) /\ calls[n].event.type = "tokens_granted"
            THEN calls[n].event.amount
            ELSE 0)

\* The handlers of kind via of call id are running: the loop over them is
\* at one of them, or one of them is emitting.
C25_Handling(id, via, pc) ==
    \E k \in 1..Len(stack) :
        /\ stack[k].id = id
        /\ \/ stack[k].kind = "handler" /\ stack[k].via = via
           \/ k = Len(stack) /\ stack[k].kind = "emit" /\ stack[k].pc = pc

C25_ListenersRunAfterTheCommit ==
    /\ GetState("counter") = states["counter"].InitialState
                                + C25_Granted(Len(calls))
    /\ \A id \in DOMAIN calls :
        /\ C25_Handling(id, "listener", "listeners") =>
                Committed(id) /\ InLog(id)
        /\ C25_Handling(id, "hook", "before") =>
                ~Committed(id) /\ Ran(id, "add") = {}

\* The listener of a grant is about to run with the grant in the log and
\* its tokens in the counter; the grant was emitted by a before-hook of the
\* registration, which is not in the log yet.
C25_Witness ==
    /\ Running("emit", "listeners")
    /\ Top.event.type = "tokens_granted"
    /\ InLog(Top.id)
    /\ GetState("counter")
        = states["counter"].InitialState + Top.event.amount
    /\ calls[Top.id].via = "hook"
    /\ C25_Handling(1, "hook", "before")
    /\ \A k \in 1..Len(events) : events[k] # calls[1].event

(***************************************************************************)
(* C26: the validators of an event type are evaluated in registration      *)
(* order, and the evaluation stops at the first validator that is not      *)
(* skipped and returns false: no later validator, and no exception         *)
(* condition for a later validator, is evaluated for that Emit.            *)
(***************************************************************************)
\* The steps of call id that evaluated a validator or its exceptions.
C26_Evaluated(id) ==
    SelectSeq(trace, LAMBDA s : s.id = id /\ s.op \in {"validate", "skip"})

C26_InOrderUntilTheFirstFailure ==
    \A id \in DOMAIN calls :
        LET steps == C26_Evaluated(id)
            n == Len(validators[calls[id].event.type])
        IN /\ Len(steps) <= n
           /\ \A k \in 1..Len(steps) :
                /\ steps[k].i = k
                /\ ~steps[k].ok => k = Len(steps) /\ steps[k].op = "validate"
           /\ (Finished(id) /\ ~RejectedByValidator(id)) => Len(steps) = n
           /\ RejectedByValidator(id) =>
                \A j \in 1..n :
                    (\E k \in 1..Len(steps) : steps[k].i = j)
                        = (\A l \in 1..(j - 1) : Excepted(id, l) \/ Holds(id, l))

\* An order refused by the first of two validators; the second, which would
\* have accepted it, was not evaluated.
C26_Witness ==
    /\ stack = << >>
    /\ calls # << >>
    /\ Len(validators[calls[1].event.type]) = 2
    /\ Len(C26_Evaluated(1)) = 1
    /\ C26_Evaluated(1)[1].i = 1
    /\ ~C26_Evaluated(1)[1].ok
    /\ Holds(1, 2)
    /\ validators[calls[1].event.type][1] # validators[calls[1].event.type][2]

(***************************************************************************)
(* C27: every Emit call eventually returns true or false.  It runs to      *)
(* completion on the caller's thread, the emissions of its hooks and       *)
(* listeners being calls inside it; there is no state in which a call      *)
(* stays pending.                                                          *)
(***************************************************************************)
C27_Pending == \E id \in DOMAIN calls : ~Finished(id)

C27_Returned ==
    /\ stack = << >>
    /\ calls # << >>
    /\ \A id \in DOMAIN calls : calls[id].result \in {"accepted", "rejected"}

C28_NoReducerFor(name, event) ==
    /\ states[name].Reducers[event.type] = NoReducer
    /\ Targeting(event.type, name) = << >>

C28_Added ==
    /\ Len(events') = Len(events) + 1
    /\ SubSeq(events', 1, Len(events)) = events

C28_Unchanged ==
    \A name \in StateNames :
        (/\ C28_Added
         /\ states[name].exists
         /\ C28_NoReducerFor(name, events'[Len(events')]))
            => GetState(name)' = GetState(name)

C28_ConfigurationGapsAreSilent ==
    /\ [](\A name \in StateNames : ~states[name].exists => GetState(name) = Nil)
    /\ [][C28_Unchanged]_vars

\* The total was never registered and the log is not empty; the counter
\* counts orders, and the invoice committed after the order left it at the
\* initial value plus the order's value.
C28_Witness ==
    /\ stack = << >>
    /\ ~states["total"].exists
    /\ GetState("total") = Nil
    /\ states["counter"].exists
    /\ IsCounter("counter")
    /\ events = << [type |-> "order_placed", amount |-> 1],
                   [type |-> "invoice_generated", amount |-> 2] >>
    /\ C28_NoReducerFor("counter", events[2])
    /\ GetState("counter") = states["counter"].InitialState + 1

(***************************************************************************)
(* C29: when the repository rejects the full replace, that is when SetAll  *)
(* returns an error, SetEvents panics.  It does not drop the error and     *)
(* return as if the log had been rebuilt.                                  *)
(***************************************************************************)
C29_Called == loaded' # loaded /\ (loaded'.set \/ loaded'.panicked)

C29_SetEventsPanicsOnError ==
    /\ [](loaded.panicked = loaded.error)
    /\ [](loaded.set = (~loaded.error /\ loaded # NotLoaded))
    /\ [][C29_Called =>
            IF loaded'.error
            THEN loaded'.panicked /\ ~loaded'.set /\ GetEvents' = GetEvents
            ELSE loaded'.set /\ GetEvents' = loaded'.events]_vars

\* The repository rejected a log of two events while the log held one
\* accepted order: SetEvents panicked and the log is the one order.
C29_Witness ==
    /\ loaded.error
    /\ loaded.panicked
    /\ ~loaded.set
    /\ Len(loaded.events) = 2
    /\ GetEvents = << [type |-> "order_placed", amount |-> 1] >>
    /\ accepted = 1

(***************************************************************************)
(* C30: in the tic-tac-toe game, whatever StartGame and MakeMove calls are *)
(* made, every move in the log was legal when it was committed: the game   *)
(* had started and had no winner, the mover was the current player, and    *)
(* the cell was on the board and empty.  So the moves of the log alternate *)
(* X, O, X, ... from X, no cell is played twice, and a rejected move       *)
(* leaves the log and the state as they were.                              *)
(***************************************************************************)
\* The positions in the log of the moves.
C30_Moves == {k \in 1..Len(events) : events[k].type = "move_made"}

\* The number of moves in the log before position k.
C30_MovesBefore(k) == Cardinality({j \in C30_Moves : j < k})

\* The move at position k of the log was legal in the state of the game
\* folded from the log before it.
C30_LegalWhenCommitted(k) ==
    LET before == GameStateAt(SubSeq(events, 1, k - 1))
        move == events[k]
    IN /\ before.GameStarted
       /\ before.Winner = ""
       /\ CheckWinner(before) = ""
       /\ move.Player = before.CurrentPlayer
       /\ move.Position \in BoardPositions
       /\ before.Board[move.Position] = ""

C30_EveryMoveWasLegal ==
    /\ \A k \in C30_Moves :
        /\ C30_LegalWhenCommitted(k)
        /\ events[k].Player
            = (IF C30_MovesBefore(k) % 2 = 0 THEN "X" ELSE "O")
        /\ \A j \in C30_Moves :
            j # k => events[j].Position # events[k].Position
    /\ \A id \in DOMAIN calls :
        (Finished(id) /\ calls[id].result = "rejected") =>
            /\ ~Committed(id)
            /\ Children(id, "listener") = {}
            /\ id = 1 /\ stack = << >> =>
                /\ GetEvents = LogAt(1)
                /\ GetState("game") = GameStateAt(LogAt(1))

\* X has won with the top row; O's move to a free cell is then rejected, and
\* the log is the start, the five moves and the end of the game.
C30_Witness ==
    /\ stack = << >>
    /\ calls # << >>
    /\ calls[1].event = MoveMadeEvent("O", 5)
    /\ calls[1].result = "rejected"
    /\ Len(events) = 7
    /\ Cardinality(C30_Moves) = 5
    /\ events[7] = GameEndedEvent("X")
    /\ GetState("game").Winner = "X"
    /\ GetState("game").Board[5] = ""
    /\ GetState("game").CurrentPlayer = "O"

(***************************************************************************)
(* C31: in the tic-tac-toe game, whenever a committed move completes a     *)
(* line or fills the board, the CheckForWinner listener commits a          *)
(* game_ended event with the matching winner (X, O or draw) right after    *)
(* the move.  The log holds at most one game_ended event and no move after *)
(* it, and the winner never changes once it is set.                        *)
(***************************************************************************)
C31_Ended == {k \in 1..Len(events) : events[k].type = "game_ended"}

C31_BoardAfter(k) == GameStateAt(SubSeq(events, 1, k)).Board

\* The move at index k completed a line: its mark fills a line through its
\* cell.
C31_CompletesALine(k) ==
    \E n \in 1..Len(WinningLines) :
        /\ \E c \in 1..3 : WinningLines[n][c] = events[k].Position
        /\ \A c \in 1..3 :
            C31_BoardAfter(k)[WinningLines[n][c]] = events[k].Player

C31_FillsTheBoard(k) ==
    \A c \in BoardPositions : C31_BoardAfter(k)[c] # ""

\* The result of the game that the move at index k decides, "" if none.
C31_WinnerAfter(k) ==
    CASE C31_CompletesALine(k) -> events[k].Player
      [] C31_FillsTheBoard(k) -> "draw"
      [] OTHER -> ""

C31_TheGameEndsWithTheDecidingMove ==
    /\ \A k \in C30_Moves :
        C31_WinnerAfter(k) # "" =>
            IF k < Len(events)
            THEN events[k + 1] = GameEndedEvent(C31_WinnerAfter(k))
            ELSE stack # << >> /\ calls[1].index = k
    /\ \A k \in C31_Ended :
        /\ k - 1 \in C30_Moves
        /\ events[k].Winner = C31_WinnerAfter(k - 1)
        /\ events[k].Winner \in {"X", "O", "draw"}
        /\ k = Len(events)
    /\ Cardinality(C31_Ended) <= 1
    /\ GetState("game").Winner
        = (IF C31_Ended = {} THEN "" ELSE events[Len(events)].Winner)

C31_WinnerIsFinal ==
    GetState("game").Winner # ""
        => GetState("game")'.Winner = GetState("game").Winner

C31_GameEndedFollowsTheDecidingMove ==
    /\ []C31_TheGameEndsWithTheDecidingMove
    /\ [][C31_WinnerIsFinal]_vars

\* The board is full without a line: the last move was followed by the end
\* of the game as a draw, and the call has returned.
C31_Witness ==
    /\ stack = << >>
    /\ Len(events) = 11
    /\ events[10].type = "move_made"
    /\ events[11] = GameEndedEvent("draw")
    /\ \A c \in BoardPositions : GetState("game").Board[c] # ""
    /\ GetState("game").Winner = "draw"

(***************************************************************************)
(* C32: the tic-tac-toe game starts only once.  Whatever StartGame calls   *)
(* are made, the log holds at most one game_started event; a StartGame     *)
(* that is rejected returns an error and leaves the names of the players   *)
(* and the rest of the state as they were.                                 *)
(***************************************************************************)
C32_Starts == {k \in 1..Len(events) : events[k].type = "game_started"}

\* StartGame returns an error exactly when Emit returned false.
C32_ReturnedAnError(id) == calls[id].result = "rejected"

C32_TheGameStartsOnce ==
    /\ Cardinality(C32_Starts) <= 1
    /\ \A k \in C32_Starts :
        /\ GetState("game").PlayerXName = events[k].PlayerX
        /\ GetState("game").PlayerOName = events[k].PlayerO
    /\ (/\ stack = << >>
        /\ calls # << >>
        /\ calls[1].event.type = "game_started") =>
            IF \E k \in 1..calls[1].start : events[k].type = "game_started"
            THEN /\ C32_ReturnedAnError(1)
                 /\ ~Committed(1)
                 /\ GetEvents = LogAt(1)
                 /\ GetState("game") = GameStateAt(LogAt(1))
            ELSE /\ calls[1].result = "accepted"
                 /\ InLog(1)

\* Alice and Bob play; a later StartGame for Charlie and Dave was rejected
\* and the players are still Alice and Bob.
C32_Witness ==
    /\ stack = << >>
    /\ calls # << >>
    /\ calls[1].event = GameStartedEvent("Charlie", "Dave")
    /\ C32_ReturnedAnError(1)
    /\ Len(events) = 3
    /\ events[1] = GameStartedEvent("Alice", "Bob")
    /\ GetState("game").PlayerXName = "Alice"
    /\ GetState("game").PlayerOName = "Bob"
    /\ GetState("game").Board[0] = "X"

(***************************************************************************)
(* C33: every event that Emit commits satisfies its validators that were   *)
(* not skipped with respect to the log prefix right before its own entry,  *)
(* also when its before-hooks committed events between its validation and  *)
(* its append.  As stated this fails; what holds is that it satisfies      *)
(* them with respect to the log as it was when Emit was called, and that   *)
(* this is the prefix before its entry when its before-hooks committed     *)
(* nothing.                                                                *)
(***************************************************************************)
\* The log right before the entry of call id.
C33_Preceding(id) == SubSeq(events, 1, calls[id].index - 1)

\* The entries committed under the before-hooks of call id.
C33_CommittedByHooks(id) ==
    {c \in DOMAIN calls :
        /\ Committed(c)
        /\ \E h \in Children(id, "hook") : Under(c, h)}

C33_ValidAtTheCommitPosition ==
    \A id \in DOMAIN calls :
        Committed(id) =>
            \A k \in 1..Len(validators[calls[id].event.type]) :
                \/ Excepted(id, k)
                \/ Validate(validators[calls[id].event.type][k],
                            C33_Preceding(id), calls[id].event)

C33_ValidWhenEmitWasCalled ==
    \A id \in DOMAIN calls :
        Committed(id) =>
            /\ Passes(id)
            /\ calls[id].index
                = calls[id].start + Cardinality(C33_CommittedByHooks(id)) + 1
            /\ C33_CommittedByHooks(id) = {} => C33_Preceding(id) = LogAt(id)

\* A grant of one token passed the validator on the empty log; its
\* before-hook committed the bonus grant, so the grant's entry follows a
\* grant, which the validator would refuse.
C33_Witness ==
    /\ stack = << >>
    /\ Len(calls) = 2
    /\ calls[1].event = [type |-> "tokens_granted", amount |-> 1]
    /\ calls[1].result = "accepted"
    /\ calls[1].index = 2
    /\ calls[2].index = 1
    /\ calls[2].via = "hook"
    /\ Ran(1, "validate") # {}
    /\ ~Validate("GameNotStarted", C33_Preceding(1), calls[1].event)

(***************************************************************************)
(* C34: projection is prefix-consistent under cross-state reads: a reducer *)
(* of state A that reads state B through the engine while it reduces the   *)
(* event at index i receives B as of the events up to i, so the value A    *)
(* had after k events does not change when more events are committed.  As  *)
(* stated this fails: the reducer receives B folded from the whole log.    *)
(* What holds is that every read returns B of the current log, and that    *)
(* the fold of A is prefix-consistent across a commit that leaves B as it  *)
(* was.                                                                    *)
(***************************************************************************)
\* The total folded from the first n events of the log, each read of the
\* counter returning the counter folded from the events up to the one being
\* reduced.
RECURSIVE C34_TotalOfPrefixes(_)
C34_TotalOfPrefixes(n) ==
    IF n = 0
    THEN states["total"].InitialState
    ELSE C34_TotalOfPrefixes(n - 1)
            + Project("counter", states["counter"].InitialState,
                      SubSeq(events, 1, n))

\* The last event of the next state was appended in this step.
C34_Appended == Len(events') = Len(events) + 1

C34_PrefixConsistent ==
    GetState("total") = C34_TotalOfPrefixes(Len(events))

C34_ReadsTheWholeLog ==
    GetState("total")
        = states["total"].InitialState + Len(events) * GetState("counter")

C34_ConsistentWhileTheOtherStateStays ==
    (C34_Appended /\ GetState("counter")' = GetState("counter"))
        => GetState("total")' = GetState("total") + GetState("counter")

C34_CrossStateReadsSeeTheWholeLog ==
    /\ []C34_ReadsTheWholeLog
    /\ [][C34_ConsistentWhileTheOtherStateStays]_vars

\* Two orders of amount 1: each of the two reads of the counter returned 3,
\* its value over the whole log, and not 2 for the first order.
C34_Witness ==
    /\ stack = << >>
    /\ events = << [type |-> "order_placed", amount |-> 1],
                   [type |-> "order_placed", amount |-> 1] >>
    /\ GetState("counter") = 3
    /\ GetState("total") = 7
    /\ C34_TotalOfPrefixes(2) = 6

(***************************************************************************)
(* C35: an exception is scoped to the event type it was registered for.    *)
(* An exception registered for type T1 has no effect on the validation of  *)
(* events of another type T2, also when the same validator instance is     *)
(* registered for both types and the exception's condition would be true   *)
(* for the event.                                                          *)
(***************************************************************************)
\* An exception registered for type t names validator v and its condition
\* holds for the event of call id.
C35_ExceptionOf(t, v, id) ==
    \E x \in 1..Len(exceptions[t]) :
        /\ exceptions[t][x].Validator = v
        /\ Condition(exceptions[t][x].Condition, LogAt(id), calls[id].event)

C35_ExceptionsAreScopedToTheirType ==
    \A id \in DOMAIN calls :
        LET t == calls[id].event.type IN
        /\ \A k \in Ran(id, "skip") :
            C35_ExceptionOf(t, validators[t][trace[k].i], id)
        /\ \A k \in Ran(id, "validate") :
            ~C35_ExceptionOf(t, validators[t][trace[k].i], id)
        /\ (/\ Finished(id)
            /\ \E k \in 1..Len(validators[t]) :
                /\ validators[t][k] = "RequirePayment"
                /\ ~C35_ExceptionOf(t, "RequirePayment", id))
                => /\ calls[id].result = "rejected"
                   /\ ~Committed(id)

\* A free invoice is rejected by the validator that the exception registered
\* for orders would skip: invoices have no exception.
C35_Witness ==
    /\ stack = << >>
    /\ calls # << >>
    /\ calls[1].event = [type |-> "invoice_generated", amount |-> 0]
    /\ calls[1].result = "rejected"
    /\ validators["invoice_generated"] = validators["order_placed"]
    /\ exceptions["invoice_generated"] = << >>
    /\ C35_ExceptionOf("order_placed", "RequirePayment", 1)
    /\ Ran(1, "validate") # {}
    /\ Ran(1, "skip") = {}

(***************************************************************************)
(* C36: the cast in the typed validator and listener wrappers is safe: a   *)
(* wrapper built for the concrete event type T is only ever invoked by the *)
(* engine with an event whose concrete type is T, whatever events are      *)
(* emitted and whatever is registered, so no call of Emit panics in the    *)
(* wrapper's type assertion.                                               *)
(***************************************************************************)
C36_TheCastIsSafe ==
    /\ \A k \in 1..Len(trace) : trace[k].op # Panic
    /\ \A id \in DOMAIN calls : calls[id].result # Panic

(***************************************************************************)
(* C37: ordered reducers that target the same state for the same event     *)
(* type with equal priority are applied in the order in which they were    *)
(* registered, so the projection does not depend on how the sort breaks    *)
(* ties.  As stated this fails: the sort is not stable.  What holds is     *)
(* that the reducers of a type are kept in ascending priority and that a   *)
(* registration adds its reducer and loses none; among equal priorities    *)
(* any order can result, and the projection can depend on it.              *)
(***************************************************************************)
\* RegisterOrderedReducer was called for event type t in this step.
C37_Registered(t) == Len(orderedReducers'[t]) = Len(orderedReducers[t]) + 1

\* The slice without its element k.
C37_Without(slice, k) ==
    [i \in 1..(Len(slice) - 1) |-> IF i < k THEN slice[i] ELSE slice[i + 1]]

C37_Ascending(slice) ==
    \A i, j \in 1..Len(slice) :
        i < j => slice[i].Priority <= slice[j].Priority

\* The new reducer is put behind the reducers of its priority and the
\* others stay as they were.
C37_InsertedBehindItsEquals(old, new) ==
    \E k \in 1..Len(new) :
        /\ C37_Without(new, k) = old
        /\ \A i \in 1..Len(new) :
            /\ i < k => new[i].Priority <= new[k].Priority
            /\ i > k => new[i].Priority > new[k].Priority

\* The new reducer is put somewhere and the others are kept, in some order.
C37_InsertedSomewhere(old, new) ==
    \E k \in 1..Len(new) : C37_Without(new, k) \in Reorderings(old)

C38_NoReducers(name) ==
    \A t \in DOMAIN states[name].Reducers :
        states[name].Reducers[t] = NoReducer

RECURSIVE C38_Orders(_)
\* The sum of the amounts of the orders among the first n events of the log.
C38_Orders(n) ==
    IF n = 0
    THEN 0
    ELSE C38_Orders(n - 1)
            + (IF events[n].type = "order_placed" THEN events[n].amount ELSE 0)

C38_Projection ==
    \A name \in StateNames :
        /\ ~states[name].exists =>
                /\ C38_NoReducers(name)
                /\ GetState(name) = Nil
        /\ (states[name].exists /\ C38_NoReducers(name)) =>
                GetState(name) = states[name].InitialState
        /\ (/\ states[name].exists
            /\ states[name].Reducers["order_placed"] = "AddValue") =>
                GetState(name)
                    = states[name].InitialState + C38_Orders(Len(events))

\* A step that changes the registry of a name either registers the name,
\* leaving no reducer, or attaches one reducer to a registered name.
C38_Registration ==
    \A name \in StateNames :
        states'[name] # states[name] =>
            \/ /\ states'[name].exists
               /\ states'[name].InitialState = Replaced
               /\ \A t \in EventTypes : states'[name].Reducers[t] = NoReducer
            \/ /\ states[name].exists
               /\ states'[name].exists
               /\ states'[name].InitialState = states[name].InitialState
               /\ \E t \in EventTypes :
                    /\ states'[name].Reducers[t] \in Reducers
                    /\ \A other \in EventTypes \ {t} :
                        states'[name].Reducers[other]
                            = states[name].Reducers[other]

C38_RegisterStateStartsEmpty ==
    /\ []C38_Projection
    /\ [][C38_Registration]_vars

\* The counter was registered again, which replaced its initial value and
\* discarded its adding reducer: the two orders of the log do not count.
C38_Witness ==
    /\ stack = << >>
    /\ states["counter"].InitialState = Replaced
    /\ C38_NoReducers("counter")
    /\ ~states["total"].exists
    /\ Len(events) = 2
    /\ \A k \in 1..2 : events[k] = [type |-> "order_placed", amount |-> 1]
    /\ GetState("counter") = Replaced
    /\ GetState("total") = Nil

(***************************************************************************)
(* C39: a conditional side effect takes effect only when its condition     *)
(* holds for the committed event.  A ConditionalListener runs its action,  *)
(* and a listener built with If emits its events, only if the condition    *)
(* returns true; when it returns false the triggering event is still       *)
(* committed, Emit returns true, and nothing else is appended to the log.  *)
(***************************************************************************)
\* The condition of both conditional listeners: the registered player is a
\* creator.
C39_IsCreator(event) == event.amount = 1

\* What the listener or hook emits when its condition holds.
C39_Emits(h) ==
    IF h = "GrantTokens"
    THEN [type |-> "tokens_granted", amount |-> 2]
    ELSE [type |-> "welcome_email", amount |-> 0]

\* The handlers of the event of call id that have run: the step of the
\* trace, and the handler's name.
C39_HandlerOf(id, k) ==
    IF trace[k].op = "hook"
    THEN beforeHooks[calls[id].event.type][trace[k].i]
    ELSE listeners[calls[id].event.type][trace[k].i]

C39_Handled(id) == Ran(id, "hook") \cup Ran(id, "listener")

C39_SideEffectsOnlyWhenTheConditionHolds ==
    \A id \in DOMAIN calls :
        calls[id].event.type = "player_registered" =>
            /\ \A c \in DOMAIN calls :
                calls[c].parent = id =>
                    /\ C39_IsCreator(calls[id].event)
                    /\ \E k \in C39_Handled(id) :
                        /\ trace[k].i = calls[c].by
                        /\ (trace[k].op = "hook") = (calls[c].via = "hook")
                        /\ calls[c].event = C39_Emits(C39_HandlerOf(id, k))
            /\ Finished(id) =>
                /\ calls[id].result = "accepted"
                /\ InLog(id)
                /\ Cardinality({c \in DOMAIN calls : calls[c].parent = id})
                    = (IF C39_IsCreator(calls[id].event)
                       THEN Cardinality(C39_Handled(id))
                       ELSE 0)
                /\ Len(events)
                    = calls[id].start + 1
                        + (IF C39_IsCreator(calls[id].event)
                           THEN Cardinality(C39_Handled(id))
                           ELSE 0)

\* A player who is no creator was registered on an engine with a
\* conditional before-hook and a conditional listener: both ran, neither
\* emitted, and the log holds the registration alone.
C39_Witness ==
    /\ stack = << >>
    /\ calls = << [event |-> [type |-> "player_registered", amount |-> 0],
                   parent |-> 0, via |-> "caller", by |-> 0, start |-> 0,
                   result |-> "accepted", index |-> 1] >>
    /\ beforeHooks["player_registered"] = << "WelcomeCreator" >>
    /\ listeners["player_registered"] = << "GrantTokens", "WelcomeCreator" >>
    /\ Cardinality(C39_Handled(1)) = 3
    /\ events = << [type |-> "player_registered", amount |-> 0] >>

(***************************************************************************)
(* C40: UnmarshalEvents aborts with an error and returns no events only    *)
(* when the input as a whole is not a well-formed list of {type, data}     *)
(* wrappers.  A payload of one event that cannot be decoded drops just     *)
(* that event, and the rest of the batch is returned in order without an   *)
(* error.                                                                  *)
(***************************************************************************)
\* The element of the JSON array is an object.
C40_IsWrapper(element) == DOMAIN element = {"Type", "Data"}

\* The wrapper's type has a factory and its data is the object of an event.
C40_Decodable(wrapper) ==
    /\ eventFactories[wrapper.Type] # NoFactory
    /\ DOMAIN wrapper.Data = {"amount"}

C40_FailSoft(jsonData) ==
    LET result == UnmarshalEvents(jsonData)
        err == UnmarshalEventsError(jsonData)
        kept == SelectSeq(jsonData, C40_Decodable)
    IN /\ err = (\E k \in 1..Len(jsonData) : ~C40_IsWrapper(jsonData[k]))
       /\ err => result = << >>
       /\ ~err =>
            /\ Len(result) = Len(kept)
            /\ \A k \in 1..Len(kept) :
                /\ result[k].type = kept[k].Type
                /\ result[k].amount = kept[k].Data.amount

C40_UnmarshalEventsIsFailSoft ==
    /\ \A jsonData \in JSONInputs : C40_FailSoft(jsonData)
    /\ loaded.set =>
        /\ GetEvents = loaded.events
        /\ \E jsonData \in JSONInputs : loaded.events = UnmarshalEvents(jsonData)

\* A batch of an order whose data cannot be decoded and an invoice was
\* loaded: no error, and the log holds the invoice alone.
C40_Witness ==
    LET jsonData == << [Type |-> "order_placed", Data |-> [text |-> "two"]],
                       EventWrapper([type |-> "invoice_generated",
                                     amount |-> 1]) >>
    IN /\ \A t \in EventTypes : eventFactories[t] # NoFactory
       /\ jsonData \in JSONInputs
       /\ ~UnmarshalEventsError(jsonData)
       /\ loaded.set
       /\ loaded.events = UnmarshalEvents(jsonData)
       /\ GetEvents
            = << PointerTo([type |-> "invoice_generated", amount |-> 1]) >>

=============================================================================
